---- MODULE Spec2Model ----
(***************************************************************************)
(* Model of the WHAMO network editor store (zustand store `useNetworkStore`), *)
(* of its history manager and of the domain-file exporter generateInpFile.  *)
(* Every store handler is an operator from a store record to the store      *)
(* record the handler leaves behind, the exporter an operator from a store  *)
(* record to the text; the actions apply one of them to the current store.  *)
(*                                                                         *)
(* Conventions                                                             *)
(*  - element ids are the strings `${idCounter++}`; they are modelled by    *)
(*    the number they print, so parseInt(id) is the id itself;              *)
(*  - null (selection, file handle) is Null;                                *)
(*  - dimensional numbers are fixed-point integers in units of 1/Scale, so  *)
(*    that toFixed(4) is a rounding to an integer;                           *)
(*  - node.data / edge.data are records whose DOMAIN is the set of keys     *)
(*    that are defined; a label is a tuple <<prefix>> or <<prefix, n>>;      *)
(*  - style / markerEnd / isLocked / projectNameError are rendering state   *)
(*    and are not modelled;                                                 *)
(*  - inpText is the text the last generateInpFile call returned, a list   *)
(*    of lines, each line the tuple of its blank-separated tokens;          *)
(*  - lastOp is the last call with its arguments, pre the store before it   *)
(*    and the name of the call before it, opCount the number of calls of    *)
(*    the session: they record the run and no handler reads them.           *)
(***************************************************************************)
EXTENDS Integers, Sequences, FiniteSets, TLC

VARIABLES nodes, edges, selectedElementId, selectedElementType,
          computationalParams, outputRequests, projectName, loadedFileHandle,
          globalUnit, past, future, idCounter,
          inpText,
          lastOp, pre, opCount

vars == <<nodes, edges, selectedElementId, selectedElementType,
          computationalParams, outputRequests, projectName, loadedFileHandle,
          globalUnit, past, future, idCounter, inpText, lastOp, pre,
          opCount>>

(***************************************************************************)
(* Bounds of the model                                                     *)
(***************************************************************************)
\* number of store operations of an editing session (Spec)
MaxOps == 3
\* number of store operations of a session that creates, loads and clears (SpecIds)
MaxIdOps == 4
\* number of store operations of a session that toggles the units (SpecUnits)
MaxUnitOps == 4
\* the small stored quantities of a loaded network, in units of 1/Scale
MaxUnitValue == 300
\* nodes plus edges of an exported network (SpecExport)
MaxSize == 4
\* distance between the node number and the id of a node of such a network
NumberOffset == 10
\* number of store operations of a session that builds a network (SpecBuild)
MaxBuildOps == 4
\* edges of an exported network whose edges share labels (SpecBlocks)
MaxBlockEdges == 2
\* steps of a session that edits the output requests and exports (SpecSession)
MaxSessionOps == 4
\* operations of a session that edits the edges (SpecEdges)
MaxEdgeOps == 4
\* operations of a session in which the store alone labels the edges (SpecLabels)
MaxLabelOps == 5
\* operations of a session that toggles the unit system and travels
\* through the history (SpecUnitHistory)
MaxUnitHistoryOps == 3
\* steps of a session that toggles the unit system and exports (SpecUnitExport)
MaxUnitExportOps == 3

(***************************************************************************)
(* Program constants                                                       *)
(***************************************************************************)
HistoryLimit == 50
Scale == 10000
Null == 0 - 1

Min(a, b) == IF a < b THEN a ELSE b

\* Array.prototype.filter is SelectSeq of Sequences

\* Array.prototype.map with function F(_)
MapSeq(seq, F(_)) == [i \in 1..Len(seq) |-> F(seq[i])]

Range(seq) == {seq[i] : i \in 1..Len(seq)}

\* { ...d, ...upd }
Merge(d, upd) == upd @@ d

availableVars == <<"Q", "HEAD", "ELEV", "VEL", "PRESS", "PIEZHEAD">>
requestTypes == <<"HISTORY", "PLOT", "SPREADSHEET">>

DefaultParams == [dtcomp |-> 100, dtout |-> 1000, tmax |-> 500 * Scale]
DefaultProjectName == "Untitled Network"

(***************************************************************************)
(* The store                                                               *)
(***************************************************************************)
State ==
  [nodes |-> nodes, edges |-> edges,
   selectedElementId |-> selectedElementId,
   selectedElementType |-> selectedElementType,
   computationalParams |-> computationalParams,
   outputRequests |-> outputRequests,
   projectName |-> projectName, loadedFileHandle |-> loadedFileHandle,
   globalUnit |-> globalUnit, past |-> past, future |-> future,
   idCounter |-> idCounter]

InitState ==
  [nodes |-> <<>>, edges |-> <<>>,
   selectedElementId |-> Null, selectedElementType |-> "null",
   computationalParams |-> DefaultParams,
   outputRequests |-> <<>>,
   projectName |-> DefaultProjectName, loadedFileHandle |-> Null,
   globalUnit |-> "FPS", past |-> <<>>, future |-> <<>>,
   idCounter |-> 1]

\* the four fields a history entry carries
Snapshot(s) ==
  [nodes |-> s.nodes, edges |-> s.edges,
   computationalParams |-> s.computationalParams,
   outputRequests |-> s.outputRequests]

\* set({ ...snapshot, ... })
Restore(s, snap) ==
  [s EXCEPT !.nodes = snap.nodes, !.edges = snap.edges,
            !.computationalParams = snap.computationalParams,
            !.outputRequests = snap.outputRequests]

(***************************************************************************)
(* History manager                                                         *)
(***************************************************************************)
saveToHistory_NoCap(s) ==
  [s EXCEPT !.past = <<Snapshot(s)>> \o s.past, !.future = <<>>]

saveToHistory(s) ==
  [s EXCEPT !.past = SubSeq(<<Snapshot(s)>> \o s.past, 1,
                            Min(HistoryLimit, Len(s.past) + 1)),
            !.future = <<>>]

undo_DropsCurrent(s) ==
  IF Len(s.past) = 0 THEN s
  ELSE [Restore(s, s.past[1]) EXCEPT !.past = Tail(s.past)]

undo_NoGuard(s) ==
  IF Len(s.past) = 0 THEN [s EXCEPT !.future = <<Snapshot(s)>> \o s.future]
  ELSE [Restore(s, s.past[1]) EXCEPT
          !.past = Tail(s.past),
          !.future = <<Snapshot(s)>> \o s.future]

undo(s) ==
  IF Len(s.past) = 0 THEN s
  ELSE [Restore(s, s.past[1]) EXCEPT
          !.past = Tail(s.past),
          !.future = <<Snapshot(s)>> \o s.future]

redo(s) ==
  IF Len(s.future) = 0 THEN s
  ELSE [Restore(s, s.future[1]) EXCEPT
          !.past = <<Snapshot(s)>> \o s.past,
          !.future = Tail(s.future)]

(***************************************************************************)
(* Output-request generation                                               *)
(***************************************************************************)
\* `req-${Date.now()}-${Math.random()}` is an id no request of the list
\* carries.  Request lists are only ever replaced as a whole (undo, redo,
\* loadNetwork), so ids are compared within one list only and the n smallest
\* numbers the list does not use stand for the n new ids.
UsedReqIds(s) == {r.id : r \in Range(s.outputRequests)}

RECURSIVE FreeFrom(_, _, _)
FreeFrom(used, k, n) ==
  IF n = 0 THEN <<>>
  ELSE IF (k + 1) \in used THEN FreeFrom(used, k + 1, n)
  ELSE <<k + 1>> \o FreeFrom(used, k + 1, n - 1)

FreshReqIds(s, n) == FreeFrom(UsedReqIds(s), 0, n)

\* the three default requests of one element
ElementRequests(ids, elementId, elementType) ==
  [i \in 1..Len(requestTypes) |->
     [id |-> ids[i], elementId |-> elementId, elementType |-> elementType,
      requestType |-> requestTypes[i], variables |-> availableVars]]

(***************************************************************************)
(* Unit conversion (setGlobalUnit)                                         *)
(***************************************************************************)
\* SI_TO_FPS as exact fractions num/den: 3.28084, 10.7639, 35.3147
SI_TO_FPS ==
  [length |-> <<328084, 100000>>, diameter |-> <<328084, 100000>>,
   elevation |-> <<328084, 100000>>, celerity |-> <<328084, 100000>>,
   area |-> <<107639, 10000>>, flow |-> <<353147, 10000>>]

fieldMapping ==
  [length |-> "length", diameter |-> "diameter", elevation |-> "elevation",
   reservoirElevation |-> "elevation", tankTop |-> "elevation",
   tankBottom |-> "elevation", topElevation |-> "elevation",
   bottomElevation |-> "elevation", distance |-> "length",
   celerity |-> "celerity", area |-> "area"]

\* <<quotient, remainder>> of b * n / d for 0 <= b < d, by Horner's scheme on
\* the decimal digits of n (keeps every intermediate value in 32 bits)
RECURSIVE MulDivQR(_, _, _)
MulDivQR(b, n, d) ==
  IF n = 0 THEN <<0, 0>>
  ELSE LET h == MulDivQR(b, n \div 10, d)
           t == h[2] * 10 + b * (n % 10)
       IN <<h[1] * 10 + (t \div d), t % d>>

MulDivRound_Truncates(v, n, d) ==
  (v \div d) * n + MulDivQR(v % d, n, d)[1]

\* v * n / d rounded to the nearest integer, halves up: Number(x.toFixed(4))
\* on fixed-point values.  The code multiplies and divides doubles; the
\* quotient here is the exact one, which toFixed(4) rounds the same way except
\* on a tie in the fifth decimal.
MulDivRound(v, n, d) ==
  LET qr == MulDivQR(v % d, n, d)
  IN (v \div d) * n + qr[1] + (IF 2 * qr[2] >= d THEN 1 ELSE 0)

\* Number(convertValue(value, from, to, type).toFixed(4))
convertValue(value, from, to, type) ==
  IF from = to THEN value
  ELSE IF to = "FPS"
       THEN MulDivRound(value, SI_TO_FPS[type][1], SI_TO_FPS[type][2])
       ELSE MulDivRound(value, SI_TO_FPS[type][2], SI_TO_FPS[type][1])

\* the mapped numeric fields of a data record after the toggle
convertFields(d, oldUnit, unit) ==
  [k \in DOMAIN d |->
     IF k \in DOMAIN fieldMapping
       THEN convertValue(d[k], oldUnit, unit, fieldMapping[k])
     ELSE d[k]]

convertNodeData_SkipsSchedule(d, oldUnit, unit) ==
  convertFields(d, oldUnit, unit)

\* the data record of a node without unit override after the toggle: the
\* mapped fields and the flows of its schedule points
convertNodeData(d, oldUnit, unit) ==
  [k \in DOMAIN d |->
     IF k = "schedulePoints"
       THEN [i \in 1..Len(d[k]) |->
               [d[k][i] EXCEPT !.flow = convertValue(@, oldUnit, unit, "flow")]]
     ELSE convertFields(d, oldUnit, unit)[k]]

convertNode_IgnoresOverride(node, oldUnit, unit) ==
  [node EXCEPT !.data = convertNodeData(@, oldUnit, unit)]

convertNode(node, oldUnit, unit) ==
  IF "unit" \in DOMAIN node.data THEN node
  ELSE [node EXCEPT !.data = convertNodeData(@, oldUnit, unit)]

\* an edge without unit override: the mapped fields only
convertEdge(edge, oldUnit, unit) ==
  IF "unit" \in DOMAIN edge.data THEN edge
  ELSE [edge EXCEPT !.data = convertFields(@, oldUnit, unit)]

setGlobalUnit(s, unit) ==
  LET s1 == saveToHistory(s)
      oldUnit == s1.globalUnit
  IN IF oldUnit = unit THEN s1
     ELSE [s1 EXCEPT
             !.globalUnit = unit,
             !.nodes = [i \in 1..Len(s1.nodes) |->
                          convertNode(s1.nodes[i], oldUnit, unit)],
             !.edges = [i \in 1..Len(s1.edges) |->
                          convertEdge(s1.edges[i], oldUnit, unit)]]

(***************************************************************************)
(* React Flow change application (applyNodeChanges / applyEdgeChanges)      *)
(***************************************************************************)
hasSignificantChange_RemoveOnly(changes) ==
  \E i \in 1..Len(changes) : changes[i].type = "remove"

\* changes.some(c => c.type === 'remove' || c.type === 'add')
hasSignificantChange(changes) ==
  \E i \in 1..Len(changes) : changes[i].type \in {"remove", "add"}

\* the changes addressed to one element: a 'remove' resets the list
RECURSIVE ChangesFor(_, _)
ChangesFor(changes, id) ==
  IF changes = <<>> THEN <<>>
  ELSE LET c == changes[Len(changes)]
           before == ChangesFor(SubSeq(changes, 1, Len(changes) - 1), id)
       IN IF c.type = "add" \/ c.id # id THEN before
          ELSE IF c.type = "remove" THEN <<c>>
          ELSE Append(before, c)

RECURSIVE ApplyElementChanges(_, _)
ApplyElementChanges(cs, el) ==
  IF cs = <<>> THEN el
  ELSE ApplyElementChanges(Tail(cs),
         IF Head(cs).type = "position"
           THEN [el EXCEPT !.position = Head(cs).position]
           ELSE el)

RECURSIVE ApplyToElements(_, _)
ApplyToElements(changes, elements) ==
  IF elements = <<>> THEN <<>>
  ELSE LET el == Head(elements)
           cs == ChangesFor(changes, el.id)
           rest == ApplyToElements(changes, Tail(elements))
       IN IF cs = <<>> THEN <<el>> \o rest
          ELSE IF cs[1].type = "remove" THEN rest
          ELSE <<ApplyElementChanges(cs, el)>> \o rest

AddedItems(changes) ==
  LET adds == SelectSeq(changes, LAMBDA c : c.type = "add")
  IN [i \in 1..Len(adds) |-> adds[i].item]

applyChanges(changes, elements) ==
  ApplyToElements(changes, elements) \o AddedItems(changes)

onNodesChange(s, changes) ==
  LET s1 == IF hasSignificantChange(changes) THEN saveToHistory(s) ELSE s
  IN [s1 EXCEPT !.nodes = applyChanges(changes, s1.nodes)]

onEdgesChange(s, changes) ==
  LET s1 == IF hasSignificantChange(changes) THEN saveToHistory(s) ELSE s
  IN [s1 EXCEPT !.edges = applyChanges(changes, s1.edges)]

(***************************************************************************)
(* Graph store operations                                                  *)
(***************************************************************************)
\* addEdge of React Flow: a connection without source or target, or one that
\* repeats the source and target of an existing edge, leaves the list as it
\* is; otherwise the edge is appended.  It is handed the edge list only.
addEdge(edge, es) ==
  IF edge.source = Null \/ edge.target = Null THEN es
  ELSE IF \E i \in 1..Len(es) :
            es[i].source = edge.source /\ es[i].target = edge.target
       THEN es
  ELSE Append(es, edge)

NewEdge(id, connection, connectionLabel) ==
  [id |-> id, source |-> connection.source, target |-> connection.target,
   data |-> [label |-> connectionLabel, type |-> "conduit",
             length |-> 1000 * Scale, diameter |-> 5000,
             celerity |-> 1000 * Scale, friction |-> 200, numSegments |-> 1]]

onConnect(s, connection) ==
  LET s1 == saveToHistory(s)
      id == s1.idCounter
      conduitCount == Len(SelectSeq(s1.edges, LAMBDA e : e.data.type = "conduit"))
      connectionLabel == <<"C", conduitCount + 1>>
      s2 == [s1 EXCEPT !.idCounter = @ + 1,
                       !.edges = addEdge(NewEdge(id, connection, connectionLabel), @)]
  IN [s2 EXCEPT !.outputRequests =
                  @ \o ElementRequests(FreshReqIds(s2, 3), id, "edge")]

\* the data record addNode gives a node of each type
initialData(type, id) ==
  LET nodeNumber == id
      base == [label |-> <<"">>, type |-> type]
  IN CASE type = "reservoir" ->
            Merge(base, [label |-> <<"HW">>, nodeNumber |-> nodeNumber,
                         elevation |-> 100 * Scale,
                         reservoirElevation |-> 100 * Scale])
       [] type \in {"node", "junction"} ->
            Merge(base, [label |-> <<"Node", nodeNumber>>,
                         nodeNumber |-> nodeNumber, elevation |-> 50 * Scale])
       [] type = "surgeTank" ->
            Merge(base, [label |-> <<"ST">>, nodeNumber |-> nodeNumber,
                         topElevation |-> 120 * Scale,
                         bottomElevation |-> 80 * Scale,
                         diameter |-> 5 * Scale, celerity |-> 1000 * Scale,
                         friction |-> 100])
       [] type = "flowBoundary" ->
            Merge(base, [label |-> <<"FB", id>>, nodeNumber |-> nodeNumber,
                         scheduleNumber |-> 1])
       [] OTHER -> base

addNode_ReplacesRequests(s, type, position) ==
  LET s1 == saveToHistory(s)
      id == s1.idCounter
      newNode == [id |-> id, type |-> type, position |-> position,
                  data |-> initialData(type, id)]
      s2 == [s1 EXCEPT !.idCounter = @ + 1, !.nodes = Append(@, newNode)]
  IN [s2 EXCEPT !.outputRequests = ElementRequests(<<1, 2, 3>>, id, "node")]

addNode(s, type, position) ==
  LET s1 == saveToHistory(s)
      id == s1.idCounter
      newNode == [id |-> id, type |-> type, position |-> position,
                  data |-> initialData(type, id)]
      s2 == [s1 EXCEPT !.idCounter = @ + 1, !.nodes = Append(@, newNode)]
  IN [s2 EXCEPT !.outputRequests =
                  @ \o ElementRequests(FreshReqIds(s2, 3), id, "node")]

updateNodeData(s, id, data) ==
  LET s1 == saveToHistory(s)
  IN [s1 EXCEPT !.nodes =
        [i \in 1..Len(s1.nodes) |->
           IF s1.nodes[i].id = id
             THEN [s1.nodes[i] EXCEPT !.data = Merge(@, data)]
             ELSE s1.nodes[i]]]

\* data.label || edge.data?.label || "": a label that is missing or empty
\* gives way to the next one
givenEdgeLabel(edge, data) ==
  IF "label" \in DOMAIN data /\ data.label # <<"">> THEN data.label
  ELSE IF "label" \in DOMAIN edge.data /\ edge.data.label # <<"">> THEN edge.data.label
  ELSE <<"">>

\* a label that is recomputed only if no label is passed in
updatedEdgeLabel_KeepsGivenLabel(es, edge, data) ==
  IF "type" \in DOMAIN data /\ data.type # edge.data.type /\ "label" \notin DOMAIN data
    THEN LET sameTypeEdges ==
               SelectSeq(es, LAMBDA e : e.data.type = data.type /\ e.id # edge.id)
             prefix == IF data.type = "conduit" THEN "C" ELSE "D"
         IN <<prefix, Len(sameTypeEdges) + 1>>
    ELSE givenEdgeLabel(edge, data)

\* the label updateEdgeData gives the edge
updatedEdgeLabel(es, edge, data) ==
  IF "type" \in DOMAIN data /\ data.type # edge.data.type
    THEN LET sameTypeEdges ==
               SelectSeq(es, LAMBDA e : e.data.type = data.type /\ e.id # edge.id)
             prefix == IF data.type = "conduit" THEN "C" ELSE "D"
         IN <<prefix, Len(sameTypeEdges) + 1>>
    ELSE givenEdgeLabel(edge, data)

updateEdgeData(s, id, data) ==
  LET s1 == saveToHistory(s)
  IN [s1 EXCEPT !.edges =
        [i \in 1..Len(s1.edges) |->
           IF s1.edges[i].id = id
             THEN [s1.edges[i] EXCEPT
                     !.data = Merge(Merge(@, data),
                                    [label |-> updatedEdgeLabel(s1.edges, s1.edges[i], data)])]
             ELSE s1.edges[i]]]

deleteElement_SourceOnly(s, id, type) ==
  LET s1 == saveToHistory(s)
      deselect == s1.selectedElementId = id
  IN IF type = "node"
       THEN [s1 EXCEPT
               !.nodes = SelectSeq(@, LAMBDA n : n.id # id),
               !.edges = SelectSeq(@, LAMBDA e : e.source # id),
               !.selectedElementId = IF deselect THEN Null ELSE @,
               !.selectedElementType = IF deselect THEN "null" ELSE @]
       ELSE [s1 EXCEPT
               !.edges = SelectSeq(@, LAMBDA e : e.id # id),
               !.selectedElementId = IF deselect THEN Null ELSE @,
               !.selectedElementType = IF deselect THEN "null" ELSE @]

deleteElement_KeepsSelection(s, id, type) ==
  LET s1 == saveToHistory(s)
  IN IF type = "node"
       THEN [s1 EXCEPT
               !.nodes = SelectSeq(@, LAMBDA n : n.id # id),
               !.edges = SelectSeq(@, LAMBDA e : e.source # id /\ e.target # id)]
       ELSE [s1 EXCEPT !.edges = SelectSeq(@, LAMBDA e : e.id # id)]

deleteElement(s, id, type) ==
  LET s1 == saveToHistory(s)
      deselect == s1.selectedElementId = id
  IN IF type = "node"
       THEN [s1 EXCEPT
               !.nodes = SelectSeq(@, LAMBDA n : n.id # id),
               !.edges = SelectSeq(@, LAMBDA e : e.source # id /\ e.target # id),
               !.selectedElementId = IF deselect THEN Null ELSE @,
               !.selectedElementType = IF deselect THEN "null" ELSE @]
       ELSE [s1 EXCEPT
               !.edges = SelectSeq(@, LAMBDA e : e.id # id),
               !.selectedElementId = IF deselect THEN Null ELSE @,
               !.selectedElementType = IF deselect THEN "null" ELSE @]

selectElement(s, id, type) ==
  [s EXCEPT !.selectedElementId = id, !.selectedElementType = type]

\* requests for every node, then for every edge, with new ids
autoSelectOutputRequests(s) ==
  LET n == Len(s.nodes)
      k == Len(requestTypes)
      elems == [i \in 1..(n + Len(s.edges)) |->
                  IF i <= n THEN <<s.nodes[i].id, "node">>
                  ELSE <<s.edges[i - n].id, "edge">>]
      ids == FreshReqIds(s, k * Len(elems))
  IN [s EXCEPT !.outputRequests =
        [j \in 1..(k * Len(elems)) |->
           [id |-> ids[j],
            elementId |-> elems[((j - 1) \div k) + 1][1],
            elementType |-> elems[((j - 1) \div k) + 1][2],
            requestType |-> requestTypes[((j - 1) % k) + 1],
            variables |-> availableVars]]]

\* Math.max(...ids, 0)
MaxOf(S) ==
  IF S = {} THEN 0
  ELSE LET x == CHOOSE y \in S : \A z \in S : z <= y IN x

\* { ...restData, ...variableData, variable: true }
flattenVariableData(edge) ==
  IF "variableData" \in DOMAIN edge.data
    THEN [edge EXCEPT !.data =
            Merge(Merge([k \in DOMAIN edge.data \ {"variableData"} |-> edge.data[k]],
                        edge.data.variableData),
                  [variable |-> TRUE])]
    ELSE edge

\* in is the argument record; an optional argument that is not passed is
\* not in its DOMAIN
loadNetwork(s, in) ==
  LET maxId == MaxOf({n.id : n \in Range(in.nodes)} \cup {e.id : e \in Range(in.edges)})
      processedEdges == [i \in 1..Len(in.edges) |-> flattenVariableData(in.edges[i])]
      given(k) == k \in DOMAIN in
      s1 == [s EXCEPT
               !.idCounter = maxId + 1,
               !.nodes = in.nodes,
               !.edges = processedEdges,
               !.computationalParams = IF given("params") THEN in.params ELSE @,
               !.outputRequests = IF given("requests") THEN in.requests ELSE <<>>,
               !.projectName = IF given("projectName") THEN in.projectName ELSE @,
               !.loadedFileHandle = IF given("fileHandle") THEN in.fileHandle ELSE Null,
               !.selectedElementId = Null,
               !.selectedElementType = "null"]
  IN IF ~given("requests") \/ in.requests = <<>>
       THEN autoSelectOutputRequests(s1)
       ELSE s1

clearNetwork(s) ==
  LET s1 == saveToHistory(s)
      s2 == [s1 EXCEPT
               !.nodes = <<>>, !.edges = <<>>,
               !.selectedElementId = Null, !.selectedElementType = "null",
               !.outputRequests = <<>>,
               !.projectName = DefaultProjectName,
               !.loadedFileHandle = Null,
               !.idCounter = 1]
  IN autoSelectOutputRequests(s2)

updateComputationalParams(s, params) ==
  LET s1 == saveToHistory(s)
  IN [s1 EXCEPT !.computationalParams = Merge(@, params)]

addOutputRequest(s, request) ==
  LET s1 == saveToHistory(s)
  IN [s1 EXCEPT !.outputRequests =
        Append(@, Merge(request, [id |-> FreshReqIds(s1, 1)[1]]))]

removeOutputRequest(s, id) ==
  LET s1 == saveToHistory(s)
  IN [s1 EXCEPT !.outputRequests = SelectSeq(@, LAMBDA r : r.id # id)]

(***************************************************************************)
(* Domain-file exporter (generateInpFile)                                   *)
(*                                                                         *)
(* The text is the list of its lines and a line is the tuple of its         *)
(* blank-separated tokens (the empty line is <<>>): a keyword is a string,  *)
(* a node number of the SYSTEM section is the number it prints, a label or   *)
(* an element reference of an output request is a label tuple, and a        *)
(* printed quantity is one of the tokens below.  Labels hold no blank.      *)
(***************************************************************************)
\* x.toFixed(2) of a number: h is the number of hundredths
Fixed2(h) == <<"toFixed(2)", h>>
\* Number(undefined).toFixed(2)
NaN == <<"NaN">>
\* `${x}` of a stored number, of a missing field
Str(x) == <<"String", x>>
Undefined == <<"undefined">>

Printed(d, k) == IF k \in DOMAIN d THEN Str(d[k]) ELSE Undefined

\* toFPS(value, currentUnit, type) of a stored fixed-point value
toFPS(value, currentUnit, type) ==
  IF currentUnit = "FPS" THEN Fixed2(MulDivRound(value, 1, 100))
  ELSE Fixed2(MulDivRound(value, SI_TO_FPS[type][1], SI_TO_FPS[type][2] * 100))

\* toFPS(Number(d[k]), unit, type)
toFPSField(d, k, unit, type) ==
  IF k \in DOMAIN d THEN toFPS(d[k], unit, type) ELSE NaN

\* an exporter that reads every element in the global unit
unitOf_IgnoresOverride(d, unit) == unit

\* d.unit || globalUnit
unitOf(d, unit) == IF "unit" \in DOMAIN d THEN d.unit ELSE unit

\* node.data.nodeNumber?.toString() || node.id
actualNodeId(node) ==
  IF "nodeNumber" \in DOMAIN node.data THEN node.data.nodeNumber ELSE node.id

\* a number printed where a label can stand: the label that is the number
NumberLabel(n) == <<"", n>>

\* d.label || e.id
labelOrId(el) ==
  IF "label" \in DOMAIN el.data /\ el.data.label # <<"">>
    THEN el.data.label
    ELSE NumberLabel(el.id)

\* addComment(d.comment)
commentLines(d) ==
  IF "comment" \in DOMAIN d /\ d.comment # "" THEN <<<<"c", d.comment>>>> ELSE <<>>

hasElementAt(node) == node.type \in {"reservoir", "surgeTank", "flowBoundary"}

ElemAt(node) == <<"ELEM", node.data.label, "AT", actualNodeId(node)>>

JunctionAt(id) == << <<>>, <<"JUNCTION", "AT", id>>, <<>> >>

\* the state of the depth-first walk: the visited node ids in the order of
\* their visit, the visited edge ids, the connectivity lines and the node
\* numbers that carry a special element
EmptyWalk ==
  [visitedNodes |-> <<>>, visitedEdges |-> {}, connectivityLines |-> <<>>,
   nodeIdsWithSpecialElements |-> {}]

RECURSIVE traverse_RevisitsNodes(_, _, _, _)
RECURSIVE traverse(_, _, _, _)
RECURSIVE walkOutgoing(_, _, _, _, _)

needsJunction_KindOnly(node, outgoingEdges) ==
  Len(outgoingEdges) > 0 /\ node.type = "junction"

\* the node gets a JUNCTION AT marker before its outgoing links
needsJunction(node, outgoingEdges) ==
  /\ Len(outgoingEdges) > 0
  /\ (node.type = "junction" \/ Len(outgoingEdges) > 1)

\* the body of traverse once the node is marked visited
visit(ns, es, nodeId, t1) ==
  LET found == SelectSeq(ns, LAMBDA n : n.id = nodeId)
  IN IF found = <<>> THEN t1
     ELSE
       LET node == found[1]
           actual == actualNodeId(node)
           t2 == IF hasElementAt(node)
                   THEN [t1 EXCEPT
                           !.connectivityLines = Append(@, ElemAt(node)),
                           !.nodeIdsWithSpecialElements = @ \cup {actual}]
                   ELSE t1
           outgoingEdges == SelectSeq(es, LAMBDA e : e.source = nodeId)
           t3 == IF needsJunction(node, outgoingEdges)
                   THEN [t2 EXCEPT
                           !.connectivityLines = @ \o JunctionAt(actual),
                           !.nodeIdsWithSpecialElements = @ \cup {actual}]
                   ELSE t2
       IN walkOutgoing(ns, es, outgoingEdges, actual, t3)

traverse_RevisitsNodes(ns, es, nodeId, t) ==
  visit(ns, es, nodeId, [t EXCEPT !.visitedNodes = Append(@, nodeId)])

traverse(ns, es, nodeId, t) ==
  IF nodeId \in Range(t.visitedNodes) THEN t
  ELSE visit(ns, es, nodeId, [t EXCEPT !.visitedNodes = Append(@, nodeId)])

\* outgoingEdges.forEach(edge => ...)
walkOutgoing(ns, es, outgoingEdges, fromId, t) ==
  IF outgoingEdges = <<>> THEN t
  ELSE
    LET edge == Head(outgoingEdges)
        toNode == SelectSeq(ns, LAMBDA n : n.id = edge.target)
        toId == IF toNode # <<>> THEN actualNodeId(toNode[1]) ELSE edge.target
        t1 == [t EXCEPT
                 !.visitedEdges = @ \cup {edge.id},
                 !.connectivityLines =
                    Append(@, <<"ELEM", labelOrId(edge), "LINK", fromId, toId>>)]
    IN IF edge.id \in t.visitedEdges
         THEN walkOutgoing(ns, es, Tail(outgoingEdges), fromId, t)
         ELSE walkOutgoing(ns, es, Tail(outgoingEdges), fromId,
                           traverse(ns, es, edge.target, t1))

\* a walk that starts from the first reservoir only
traverseAll_FirstRootOnly(ns, es, roots, t) ==
  IF roots = <<>> THEN t ELSE traverse(ns, es, Head(roots).id, t)

\* reservoirs.forEach(r => traverse(r.id))
RECURSIVE traverseAll(_, _, _, _)
traverseAll(ns, es, roots, t) ==
  IF roots = <<>> THEN t
  ELSE traverseAll(ns, es, Tail(roots), traverse(ns, es, Head(roots).id, t))

RECURSIVE addDisconnected_OnlySurgeTanks(_, _)
addDisconnected_OnlySurgeTanks(ns, t) ==
  IF ns = <<>> THEN t
  ELSE LET n == Head(ns)
       IN addDisconnected_OnlySurgeTanks(Tail(ns),
            IF n.id \notin Range(t.visitedNodes) /\ n.type = "surgeTank"
              THEN [t EXCEPT
                      !.connectivityLines = Append(@, ElemAt(n)),
                      !.nodeIdsWithSpecialElements = @ \cup {actualNodeId(n)}]
              ELSE t)

\* the surge tanks and flow boundaries the walk has not reached
RECURSIVE addDisconnected(_, _)
addDisconnected(ns, t) ==
  IF ns = <<>> THEN t
  ELSE LET n == Head(ns)
       IN addDisconnected(Tail(ns),
            IF /\ n.id \notin Range(t.visitedNodes)
               /\ n.type \in {"surgeTank", "flowBoundary"}
              THEN [t EXCEPT
                      !.connectivityLines = Append(@, ElemAt(n)),
                      !.nodeIdsWithSpecialElements = @ \cup {actualNodeId(n)}]
              ELSE t)

\* the walk at the end of the connectivity section
connectivity(ns, es) ==
  LET reservoirs == SelectSeq(ns, LAMBDA n : n.type = "reservoir")
  IN addDisconnected(ns, traverseAll(ns, es, reservoirs, EmptyWalk))

\* line.match(/^ELEM\s+(\S+)\s+LINK\s+(\S+)\s+(\S+)/)
linkMatch(line) == Len(line) >= 5 /\ line[1] = "ELEM" /\ line[3] = "LINK"

elementLinks(connectivityLines) ==
  LET links == SelectSeq(connectivityLines, linkMatch)
  IN [i \in 1..Len(links) |->
        [id |-> links[i][2], from |-> links[i][4], to |-> links[i][5]]]

\* nodeConnections[nodeId] || { incoming: [], outgoing: [] }
nodeConnections(links, nodeId) ==
  [incoming |-> MapSeq(SelectSeq(links, LAMBDA l : l.to = nodeId), LAMBDA l : l.id),
   outgoing |-> MapSeq(SelectSeq(links, LAMBDA l : l.from = nodeId), LAMBDA l : l.id)]

allNodeIds(ns, t) ==
  {actualNodeId(n) : n \in Range(ns)} \cup t.nodeIdsWithSpecialElements

\* RULE 2: exactly one incoming and one outgoing link of the same element
isElided(c) ==
  Len(c.incoming) = 1 /\ Len(c.outgoing) = 1 /\ c.incoming[1] = c.outgoing[1]

nodesToInclude(ns, t) ==
  LET links == elementLinks(t.connectivityLines)
  IN {id \in allNodeIds(ns, t) :
        \/ id \in t.nodeIdsWithSpecialElements
        \/ ~isElided(nodeConnections(links, id))}

\* Array.from(set).sort(...) on ids that all parse as integers
RECURSIVE sortedIds(_)
sortedIds(S) ==
  IF S = {} THEN <<>>
  ELSE LET m == CHOOSE x \in S : \A y \in S : x <= y
       IN <<m>> \o sortedIds(S \ {m})

\* the NODE line of one listed node number, if it has one
nodeLine(ns, id, globalU) ==
  LET found == SelectSeq(ns, LAMBDA n : actualNodeId(n) = id)
  IN IF found # <<>> /\ "elevation" \in DOMAIN found[1].data
       THEN LET d == found[1].data
            IN <<<<"NODE", id, "ELEV",
                   toFPS(d.elevation, unitOf(d, globalU), "elevation")>>>>
       ELSE <<>>

RECURSIVE Concat(_)
Concat(seqs) == IF seqs = <<>> THEN <<>> ELSE Head(seqs) \o Concat(Tail(seqs))

nodeLines(ns, t, globalU) ==
  LET ids == sortedIds(nodesToInclude(ns, t))
  IN Concat([i \in 1..Len(ids) |-> nodeLine(ns, ids[i], globalU)])

\* a line that is added only if the field is defined
optionalLine(d, k, line) == IF k \in DOMAIN d THEN <<line>> ELSE <<>>

reservoirBlock(n, globalU) ==
  LET d == n.data
      unit == unitOf(d, globalU)
      elev == IF "reservoirElevation" \in DOMAIN d THEN d.reservoirElevation ELSE 0
  IN commentLines(d) \o
     << <<"RESERVOIR">>, <<"ID", d.label>>,
        <<"ELEV", toFPS(elev, unit, "elevation")>>, <<"FINISH">>, <<>> >>

isVariable(d) == "variable" \in DOMAIN d /\ d.variable

conduitBlock(e, globalU) ==
  LET d == e.data
      unit == unitOf(d, globalU)
  IN commentLines(d) \o
     << <<"CONDUIT">>, <<"ID", labelOrId(e)>> >> \o
     (IF isVariable(d)
        THEN << <<"VARIABLE">> >> \o
             optionalLine(d, "distance", <<"DISTANCE", toFPSField(d, "distance", unit, "length")>>) \o
             optionalLine(d, "area", <<"AREA", toFPSField(d, "area", unit, "area")>>) \o
             optionalLine(d, "d", <<"D", toFPSField(d, "d", unit, "diameter")>>) \o
             optionalLine(d, "a", <<"A", toFPSField(d, "a", unit, "area")>>)
        ELSE <<>>) \o
     << <<"LENGTH", toFPSField(d, "length", unit, "length")>> >> \o
     (IF isVariable(d) THEN <<>>
      ELSE << <<"DIAM", toFPSField(d, "diameter", unit, "diameter")>> >>) \o
     << <<"CELERITY", toFPSField(d, "celerity", unit, "celerity")>>,
        <<"FRICTION", Printed(d, "friction")>> >> \o
     (IF "cplus" \in DOMAIN d \/ "cminus" \in DOMAIN d
        THEN << <<"ADDEDLOSS">> >> \o
             optionalLine(d, "cplus", <<"CPLUS", Printed(d, "cplus")>>) \o
             optionalLine(d, "cminus", <<"CMINUS", Printed(d, "cminus")>>)
        ELSE <<>>) \o
     optionalLine(d, "numSegments", <<"NUMSEG", Printed(d, "numSegments")>>) \o
     << <<"FINISH">>, <<>> >>

\* the conduit blocks: one per label, the first edge of each label
RECURSIVE conduitBlocks(_, _, _)
conduitBlocks(es, exportedConduitLabels, globalU) ==
  IF es = <<>> THEN <<>>
  ELSE LET e == Head(es)
           label == labelOrId(e)
       IN IF e.data.type # "conduit" \/ label \in exportedConduitLabels
            THEN conduitBlocks(Tail(es), exportedConduitLabels, globalU)
            ELSE conduitBlock(e, globalU) \o
                 conduitBlocks(Tail(es), exportedConduitLabels \cup {label}, globalU)

dummyBlock(e, globalU) ==
  LET d == e.data
      unit == unitOf(d, globalU)
  IN commentLines(d) \o
     << <<"CONDUIT", "ID", labelOrId(e)>>, <<"DUMMY">>,
        <<"DIAMETER", toFPSField(d, "diameter", unit, "diameter")>>,
        <<"ADDEDLOSS">> >> \o
     optionalLine(d, "cplus", <<"CPLUS", Printed(d, "cplus")>>) \o
     optionalLine(d, "cminus", <<"CMINUS", Printed(d, "cminus")>>) \o
     << <<"FINISH">>, <<>> >>

surgeTankBlock(n, globalU) ==
  LET d == n.data
      unit == unitOf(d, globalU)
  IN commentLines(d) \o
     << <<"SURGETANK">>, <<"ID", d.label, "SIMPLE">>,
        <<"ELTOP", toFPSField(d, "tankTop", unit, "elevation")>>,
        <<"ELBOTTOM", toFPSField(d, "tankBottom", unit, "elevation")>>,
        <<"DIAM", toFPSField(d, "diameter", unit, "diameter")>>,
        <<"CELERITY", toFPSField(d, "celerity", unit, "celerity")>>,
        <<"FRICTION", Printed(d, "friction")>>,
        <<"FINISH">>, <<>> >>

flowBoundaryLines(n) ==
  commentLines(n.data) \o
  << <<"FLOWBC", "ID", n.data.label, "QSCHEDULE",
       Printed(n.data, "scheduleNumber"), "FINISH">> >>

\* ` QSCHEDULE ${d.scheduleNumber} ${schedule}`
scheduleLine(n, globalU) ==
  LET d == n.data
      unit == unitOf(d, globalU)
      points == IF "schedulePoints" \in DOMAIN d THEN d.schedulePoints ELSE <<>>
      schedule ==
        IF points # <<>>
          THEN Concat([i \in 1..Len(points) |->
                         <<"T", Str(points[i].time), "Q",
                           toFPS(points[i].flow, unit, "flow")>>])
          ELSE <<"T", Str(0), "Q", Str(3000), "T", Str(20), "Q", Str(0),
                 "T", Str(3000), "Q", Str(0)>>
  IN <<"QSCHEDULE", Printed(d, "scheduleNumber")>> \o schedule

\* the blocks of the elements of one kind, in list order
blocksOf(els, Keep(_), Block(_)) ==
  LET kept == SelectSeq(els, Keep)
  IN Concat([i \in 1..Len(kept) |-> Block(kept[i])])

propertyLines(ns, es, globalU) ==
  blocksOf(ns, LAMBDA n : n.type = "reservoir", LAMBDA n : reservoirBlock(n, globalU)) \o
  conduitBlocks(es, {}, globalU) \o
  blocksOf(es, LAMBDA e : e.data.type = "dummy", LAMBDA e : dummyBlock(e, globalU)) \o
  blocksOf(ns, LAMBDA n : n.type = "surgeTank", LAMBDA n : surgeTankBlock(n, globalU)) \o
  blocksOf(ns, LAMBDA n : n.type = "flowBoundary", flowBoundaryLines)

scheduleLines(ns, globalU) ==
  LET flowBoundaries == SelectSeq(ns, LAMBDA n : n.type = "flowBoundary")
  IN << <<>>, <<>>, <<"SCHEDULE">> >> \o
     [i \in 1..Len(flowBoundaries) |-> scheduleLine(flowBoundaries[i], globalU)] \o
     << <<>>, <<"FINISH">>, <<>>, <<>>, <<"C", "OUTPUT", "REQUEST">>, <<>> >>

\* Object.keys(requestsByType): the request types in the order of their
\* first request
RECURSIVE typesInOrder(_, _)
typesInOrder(requests, seen) ==
  IF requests = <<>> THEN <<>>
  ELSE LET type == Head(requests).requestType
       IN IF type \in seen THEN typesInOrder(Tail(requests), seen)
          ELSE <<type>> \o typesInOrder(Tail(requests), seen \cup {type})

\* ` ${typeStr} ${label} ${req.variables.join(' ')}`
requestLine(ns, es, req) ==
  LET found == IF req.elementType = "node"
                 THEN SelectSeq(ns, LAMBDA n : n.id = req.elementId)
                 ELSE SelectSeq(es, LAMBDA e : e.id = req.elementId)
      isSurgeTank == /\ req.elementType = "node"
                     /\ found # <<>>
                     /\ found[1].data.type = "surgeTank"
      label == IF found = <<>> THEN NumberLabel(req.elementId)
               ELSE IF isSurgeTank THEN labelOrId(found[1])
               ELSE IF /\ "nodeNumber" \in DOMAIN found[1].data
                       /\ found[1].data.nodeNumber # 0
                      THEN NumberLabel(found[1].data.nodeNumber)
               ELSE labelOrId(found[1])
  IN <<IF isSurgeTank THEN "ELEM" ELSE "NODE", label>> \o req.variables

requestBlock(ns, es, requests, type) ==
  LET ofType == SelectSeq(requests, LAMBDA r : r.requestType = type)
  IN << <<type>> >> \o
     [i \in 1..Len(ofType) |-> requestLine(ns, es, ofType[i])] \o
     << <<"FINISH">>, <<>> >>

\* a block that shows DISPLAY ALL after the groups of a single type too
requestLines_DisplayAlways(ns, es, requests) ==
  LET types == typesInOrder(requests, {})
  IN IF types # <<>>
       THEN Concat([i \in 1..Len(types) |-> requestBlock(ns, es, requests, types[i])]) \o
            (IF Len(types) > 0
               THEN << <<"DISPLAY">>, <<"ALL">>, <<"FINISH">>, <<>> >>
               ELSE <<>>)
       ELSE << <<"HISTORY">>, <<"NODE", NumberLabel(2), "Q", "HEAD">>,
               <<"ELEM", <<"ST">>, "Q", "ELEV">>, <<"FINISH">> >>

requestLines(ns, es, requests) ==
  LET types == typesInOrder(requests, {})
  IN IF types # <<>>
       THEN Concat([i \in 1..Len(types) |-> requestBlock(ns, es, requests, types[i])]) \o
            (IF Len(types) > 1
               THEN << <<"DISPLAY">>, <<"ALL">>, <<"FINISH">>, <<>> >>
               ELSE <<>>)
       ELSE << <<"HISTORY">>, <<"NODE", NumberLabel(2), "Q", "HEAD">>,
               <<"ELEM", <<"ST">>, "Q", "ELEV">>, <<"FINISH">> >>

controlLines(cp) ==
  << <<>>, <<>>, <<"C", "COMPUTATIONAL", "PARAMETERS">>, <<"CONTROL">>,
     <<"DTCOMP", Str(cp.dtcomp), "DTOUT", Str(cp.dtout), "TMAX", Str(cp.tmax)>>,
     <<"FINISH">>, <<>>, <<"C", "EXECUTION", "CONTROL">>, <<"GO">>, <<"GOODBYE">> >>

headerLines ==
  << <<"c", "Project", "Name">>, <<"C", "SYSTEM", "CONNECTIVITY">>, <<>>,
     <<"SYSTEM">>, <<>> >>

\* the text generateInpFile(s.nodes, s.edges) returns in the store s
generateInpFile(s) ==
  LET t == connectivity(s.nodes, s.edges)
  IN headerLines \o
     t.connectivityLines \o
     << <<>> >> \o
     nodeLines(s.nodes, t, s.globalUnit) \o
     << <<>>, <<"FINISH">>, <<>>, <<"C", "ELEMENT", "PROPERTIES">>, <<>> >> \o
     propertyLines(s.nodes, s.edges, s.globalUnit) \o
     scheduleLines(s.nodes, s.globalUnit) \o
     requestLines(s.nodes, s.edges, s.outputRequests) \o
     controlLines(s.computationalParams)

(***************************************************************************)
(* Inputs of the operations                                                *)
(***************************************************************************)
NodeTypes == {"reservoir", "node", "junction", "surgeTank", "flowBoundary"}
UnitSystems == {"SI", "FPS"}

\* an id that getId never hands out within the bounds
GhostId == 99

NodeIds(s) == {n.id : n \in Range(s.nodes)}
EdgeIds(s) == {e.id : e \in Range(s.edges)}
RequestIds(s) == {r.id : r \in Range(s.outputRequests)}

NodeDataInputs == {[nodeNumber |-> 1], [unit |-> "SI", elevation |-> 75 * Scale]}
EdgeDataInputs == {[type |-> "dummy"], [type |-> "conduit", length |-> 500 * Scale]}
ParamInputs == {[tmax |-> 100 * Scale]}

\* edge data with a label typed in by hand: alone, with the type of a
\* conduit or of a dummy, and the empty label
EdgeLabelInputs ==
  {[label |-> <<"P", 7>>], [label |-> <<"P", 7>>, type |-> "conduit"],
   [label |-> <<"P", 7>>, type |-> "dummy"], [label |-> <<"">>]}

\* requests added by hand: one for the first node
RequestInputs(s) ==
  {[elementId |-> s.nodes[i].id, elementType |-> "node",
    requestType |-> "HISTORY", variables |-> <<"Q">>] : i \in 1..Min(1, Len(s.nodes))}

\* requests removed by hand: the first and the last of the list
RemovableRequestIds(s) ==
  {s.outputRequests[i].id : i \in {1, Len(s.outputRequests)} \cap 1..Len(s.outputRequests)}

\* the node dragged to; addNode drops nodes at position 0
DragPosition == 1

\* change lists handed to onEdgesChange for edge id
EdgeChangeLists(id) ==
  {<<[type |-> "select", id |-> id]>>,
   <<[type |-> "remove", id |-> id]>>}

\* change lists handed to onNodesChange for node id
ChangeLists(id) ==
  {<<[type |-> "position", id |-> id, position |-> DragPosition]>>,
   <<[type |-> "position", id |-> id, position |-> DragPosition],
     [type |-> "remove", id |-> id]>>}

\* a change list that adds a node
AddChangeLists ==
  {<<[type |-> "add",
      item |-> [id |-> GhostId, type |-> "node", position |-> 0,
                data |-> [label |-> <<"Node", GhostId>>, type |-> "node"]]]>>}

\* a saved network: reservoir 1 --3--> node 2, the edge carrying variableData
SavedNetwork ==
  [nodes |-> <<[id |-> 1, type |-> "reservoir", position |-> 0,
                data |-> initialData("reservoir", 1)],
               [id |-> 2, type |-> "node", position |-> 0,
                data |-> initialData("node", 2)]>>,
   edges |-> <<[id |-> 3, source |-> 1, target |-> 2,
                data |-> [label |-> <<"C", 1>>, type |-> "conduit",
                          length |-> 1000 * Scale, celerity |-> 1000 * Scale,
                          friction |-> 200, numSegments |-> 1,
                          variableData |-> [distance |-> 100 * Scale,
                                            area |-> 2 * Scale]]]>>]

LoadInputs ==
  {SavedNetwork,
   Merge(SavedNetwork,
         [params |-> [dtcomp |-> 50, dtout |-> 500, tmax |-> 10 * Scale],
          requests |-> <<[id |-> 101, elementId |-> 2, elementType |-> "node",
                          requestType |-> "PLOT", variables |-> <<"HEAD">>]>>,
          projectName |-> "Saved", fileHandle |-> 1])}

(***************************************************************************)
(* Actions                                                                 *)
(***************************************************************************)
\* the store becomes s2; lastOp and pre record the call and the store before it
Do(name, args, s2) ==
  /\ nodes' = s2.nodes
  /\ edges' = s2.edges
  /\ selectedElementId' = s2.selectedElementId
  /\ selectedElementType' = s2.selectedElementType
  /\ computationalParams' = s2.computationalParams
  /\ outputRequests' = s2.outputRequests
  /\ projectName' = s2.projectName
  /\ loadedFileHandle' = s2.loadedFileHandle
  /\ globalUnit' = s2.globalUnit
  /\ past' = s2.past
  /\ future' = s2.future
  /\ idCounter' = s2.idCounter
  /\ inpText' = inpText
  /\ lastOp' = [name |-> name, args |-> args]
  /\ pre' = [st |-> State, op |-> lastOp.name]

\* connections drawn on the canvas, one of them from a node that is not there
ConnectionInputs(s) ==
  {c \in [source : NodeIds(s) \cup {GhostId}, target : NodeIds(s)] :
     c.source = GhostId \/ c.source <= c.target}

AddNode ==
  \E type \in NodeTypes : Do("addNode", <<type, 0>>, addNode(State, type, 0))

OnConnect ==
  \E connection \in ConnectionInputs(State) :
    Do("onConnect", <<connection>>, onConnect(State, connection))

UpdateNodeData ==
  \E id \in NodeIds(State), data \in NodeDataInputs :
    Do("updateNodeData", <<id, data>>, updateNodeData(State, id, data))

UpdateEdgeData ==
  \E id \in EdgeIds(State), data \in EdgeDataInputs :
    Do("updateEdgeData", <<id, data>>, updateEdgeData(State, id, data))

\* updateEdgeData with a label typed in by hand
UpdateEdgeLabel ==
  \E id \in EdgeIds(State), data \in EdgeLabelInputs :
    Do("updateEdgeData", <<id, data>>, updateEdgeData(State, id, data))

DeleteElement ==
  \/ \E id \in NodeIds(State) :
       Do("deleteElement", <<id, "node">>, deleteElement(State, id, "node"))
  \/ \E id \in EdgeIds(State) :
       Do("deleteElement", <<id, "edge">>, deleteElement(State, id, "edge"))

SelectElement ==
  \/ \E id \in NodeIds(State) :
       Do("selectElement", <<id, "node">>, selectElement(State, id, "node"))
  \/ \E id \in EdgeIds(State) :
       Do("selectElement", <<id, "edge">>, selectElement(State, id, "edge"))
  \/ Do("selectElement", <<Null, "null">>, selectElement(State, Null, "null"))

OnNodesChange ==
  \E changes \in UNION {ChangeLists(id) : id \in NodeIds(State)} \cup AddChangeLists :
    Do("onNodesChange", <<changes>>, onNodesChange(State, changes))

OnEdgesChange ==
  \E changes \in UNION {EdgeChangeLists(id) : id \in EdgeIds(State)} :
    Do("onEdgesChange", <<changes>>, onEdgesChange(State, changes))

LoadNetwork ==
  \E in \in LoadInputs : Do("loadNetwork", <<in>>, loadNetwork(State, in))

ClearNetwork == Do("clearNetwork", <<>>, clearNetwork(State))

AutoSelectOutputRequests ==
  Do("autoSelectOutputRequests", <<>>, autoSelectOutputRequests(State))

UpdateComputationalParams ==
  \E params \in ParamInputs :
    Do("updateComputationalParams", <<params>>,
       updateComputationalParams(State, params))

AddOutputRequest ==
  \E request \in RequestInputs(State) :
    Do("addOutputRequest", <<request>>, addOutputRequest(State, request))

RemoveOutputRequest ==
  \E id \in RemovableRequestIds(State) :
    Do("removeOutputRequest", <<id>>, removeOutputRequest(State, id))

SetGlobalUnit ==
  \E unit \in UnitSystems :
    Do("setGlobalUnit", <<unit>>, setGlobalUnit(State, unit))

Undo == Do("undo", <<>>, undo(State))

Redo == Do("redo", <<>>, redo(State))

\* an export that also pushes a snapshot of the store on the history
GenerateInpFile_SavesHistory ==
  /\ inpText' = generateInpFile(State)
  /\ lastOp' = [name |-> "generateInpFile", args |-> <<>>]
  /\ pre' = [st |-> State, op |-> lastOp.name]
  /\ past' = saveToHistory(State).past
  /\ future' = saveToHistory(State).future
  /\ UNCHANGED <<nodes, edges, selectedElementId, selectedElementType,
                 computationalParams, outputRequests, projectName,
                 loadedFileHandle, globalUnit, idCounter>>

\* generateInpFile reads the store and returns the text; the store is left
\* as it is
GenerateInpFile ==
  /\ inpText' = generateInpFile(State)
  /\ lastOp' = [name |-> "generateInpFile", args |-> <<>>]
  /\ pre' = [st |-> State, op |-> lastOp.name]
  /\ UNCHANGED <<nodes, edges, selectedElementId, selectedElementType,
                 computationalParams, outputRequests, projectName,
                 loadedFileHandle, globalUnit, past, future, idCounter>>

Init ==
  /\ nodes = InitState.nodes
  /\ edges = InitState.edges
  /\ selectedElementId = InitState.selectedElementId
  /\ selectedElementType = InitState.selectedElementType
  /\ computationalParams = InitState.computationalParams
  /\ outputRequests = InitState.outputRequests
  /\ projectName = InitState.projectName
  /\ loadedFileHandle = InitState.loadedFileHandle
  /\ globalUnit = InitState.globalUnit
  /\ past = InitState.past
  /\ future = InitState.future
  /\ idCounter = InitState.idCounter
  /\ inpText = <<>>
  /\ lastOp = [name |-> "init", args |-> <<>>]
  /\ pre = [st |-> InitState, op |-> "init"]
  /\ opCount = 0

\* one store operation
Operation ==
  \/ AddNode
  \/ OnConnect
  \/ UpdateNodeData
  \/ UpdateEdgeData
  \/ DeleteElement
  \/ SelectElement
  \/ OnNodesChange
  \/ OnEdgesChange
  \/ LoadNetwork
  \/ ClearNetwork
  \/ AutoSelectOutputRequests
  \/ UpdateComputationalParams
  \/ AddOutputRequest
  \/ RemoveOutputRequest
  \/ SetGlobalUnit
  \/ Undo
  \/ Redo

\* an editing session of at most MaxOps operations
Next ==
  /\ opCount < MaxOps
  /\ opCount' = opCount + 1
  /\ Operation

Spec == Init /\ [][Next]_vars

\* a session that creates and deletes elements, loads and clears the network
\* and travels through the history, of at most MaxIdOps operations
IdsNext ==
  /\ opCount < MaxIdOps
  /\ opCount' = opCount + 1
  /\ \/ AddNode
     \/ OnConnect
     \/ DeleteElement
     \/ LoadNetwork
     \/ ClearNetwork
     \/ Undo
     \/ Redo

SpecIds == Init /\ [][IdsNext]_vars

\* a session of any length on an empty canvas: parameter edits, clearing,
\* undo and redo (the operations are not counted)
HistoryNext ==
  /\ UNCHANGED opCount
  /\ \/ UpdateComputationalParams
     \/ ClearNetwork
     \/ Undo
     \/ Redo

SpecHistory == Init /\ [][HistoryNext]_vars

(***************************************************************************)
(* Properties                                                              *)
(***************************************************************************)
\* the history entry saveToHistory pushes for store s0, on top of s0's past
PushedPast(s0) ==
  <<Snapshot(s0)>> \o SubSeq(s0.past, 1, Min(Len(s0.past), HistoryLimit - 1))

\* C1: in every reachable store with a non-empty past, undo() followed at once
\* by redo() gives back the same store: nodes, edges, computationalParams,
\* outputRequests, and the past and future stacks
UndoRedoRestores ==
  Len(past) > 0 => redo(undo(State)) = State

\* a redo has just followed an undo that had a snapshot to restore
UndoRedoWitness ==
  /\ lastOp.name = "redo"
  /\ pre.op = "undo"
  /\ Len(pre.st.future) > 0
  /\ Len(past) > 0
  /\ Snapshot(pre.st) # Snapshot(State)

\* C2: past never holds more than HistoryLimit snapshots, whatever the
\* interleaving of snapshotting operations, undo and redo; a push onto a full
\* stack drops the oldest entry; redo cannot overfill it because past and
\* future together never hold more than HistoryLimit snapshots
PastBounded ==
  /\ Len(past) <= HistoryLimit
  /\ Len(past) + Len(future) <= HistoryLimit
  /\ (lastOp.name \in {"updateComputationalParams", "clearNetwork"}
        /\ Len(pre.st.past) = HistoryLimit)
       => /\ past[1] = Snapshot(pre.st)
          /\ Tail(past) = SubSeq(pre.st.past, 1, HistoryLimit - 1)

\* a snapshot has just been pushed onto a full stack whose oldest entry was
\* unlike the others
PastFullWitness ==
  /\ lastOp.name = "updateComputationalParams"
  /\ Len(pre.st.past) = HistoryLimit
  /\ pre.st.past[HistoryLimit] # pre.st.past[HistoryLimit - 1]

\* the operations C3 lists
SnapshottingOps ==
  {"addNode", "onConnect", "updateNodeData", "updateEdgeData", "deleteElement",
   "updateComputationalParams", "addOutputRequest", "removeOutputRequest",
   "clearNetwork", "setGlobalUnit", "loadNetwork", "autoSelectOutputRequests"}

\* C3: an operation of the list that changed nodes, edges, computationalParams
\* or outputRequests has pushed the snapshot of the store before it and emptied
\* future, so that undo() restores these four fields
SnapshotBeforeMutation ==
  (lastOp.name \in SnapshottingOps /\ Snapshot(State) # Snapshot(pre.st))
    => /\ future = <<>>
       /\ past = PushedPast(pre.st)
       /\ Snapshot(undo(State)) = Snapshot(pre.st)

\* C4: undo() on an empty past and redo() on an empty future leave every
\* field of the store as it was
EmptyHistoryNoOp ==
  ((lastOp.name = "undo" /\ pre.st.past = <<>>)
     \/ (lastOp.name = "redo" /\ pre.st.future = <<>>))
    => State = pre.st

\* undo() has just been called on an empty past, with a redo entry pending
EmptyUndoWitness ==
  /\ lastOp.name = "undo"
  /\ pre.st.past = <<>>
  /\ pre.st.future # <<>>

\* C5: onNodesChange / onEdgesChange leave past and future alone when no
\* change is an 'add' or a 'remove', and otherwise push exactly one snapshot
\* of the store before the changes
ChangeSnapshotsOnlyAddRemove ==
  lastOp.name \in {"onNodesChange", "onEdgesChange"}
    => LET changes == lastOp.args[1]
       IN IF \E c \in Range(changes) : c.type \in {"add", "remove"}
            THEN past = PushedPast(pre.st) /\ future = <<>>
            ELSE past = pre.st.past /\ future = pre.st.future

\* a drag that ends in a removal has just been applied to a store with history
ChangeSnapshotWitness ==
  /\ lastOp.name = "onNodesChange"
  /\ Len(lastOp.args[1]) = 2
  /\ pre.st.past # <<>>
  /\ Len(past) = Len(pre.st.past) + 1
  /\ Len(nodes) < Len(pre.st.nodes)

\* C6: deleteElement(id, 'node') removes the nodes with that id and the edges
\* whose source or target is id and nothing else; deleteElement(id, 'edge')
\* removes that edge and nothing else
DeleteRemovesExactly ==
  lastOp.name = "deleteElement"
    => LET id == lastOp.args[1]
       IN IF lastOp.args[2] = "node"
            THEN /\ nodes = SelectSeq(pre.st.nodes, LAMBDA n : n.id # id)
                 /\ edges = SelectSeq(pre.st.edges,
                                      LAMBDA e : ~(e.source = id \/ e.target = id))
            ELSE /\ nodes = pre.st.nodes
                 /\ edges = SelectSeq(pre.st.edges, LAMBDA e : e.id # id)

\* a node has just been deleted that was the target only of one edge, and an
\* edge that does not touch it is still there
DeleteCascadeWitness ==
  /\ lastOp.name = "deleteElement"
  /\ lastOp.args[2] = "node"
  /\ \E e \in Range(pre.st.edges) :
       e.target = lastOp.args[1] /\ e.source # lastOp.args[1]
  /\ edges # <<>>
  /\ Len(nodes) = Len(pre.st.nodes) - 1

\* the request refers to a node or an edge of store s
RequestResolves(s, r) ==
  \/ r.elementType = "node" /\ r.elementId \in NodeIds(s)
  \/ r.elementType = "edge" /\ r.elementId \in EdgeIds(s)

\* C7: after deleteElement no output request refers to an element that is
\* not in the store
DeletePrunesRequests ==
  lastOp.name = "deleteElement"
    => \A r \in Range(outputRequests) : RequestResolves(State, r)

\* C8: every edge's source and target are ids of nodes in the store, and an
\* onConnect from or to a node that is not there leaves the graph unchanged
ReferentialIntegrity ==
  /\ \A e \in Range(edges) :
       e.source \in NodeIds(State) /\ e.target \in NodeIds(State)
  /\ (lastOp.name = "onConnect"
        /\ ~(lastOp.args[1].source \in NodeIds(pre.st)
               /\ lastOp.args[1].target \in NodeIds(pre.st)))
       => nodes = pre.st.nodes /\ edges = pre.st.edges

\* C9: no two nodes carry the same nodeNumber
UniqueNodeNumbers ==
  \A i, j \in 1..Len(nodes) :
    (i # j /\ "nodeNumber" \in DOMAIN nodes[i].data
           /\ "nodeNumber" \in DOMAIN nodes[j].data)
      => nodes[i].data.nodeNumber # nodes[j].data.nodeNumber

\* C10: the id addNode / onConnect assigns is the id of no node and of no edge
\* that was in the store
AssignedIdUnused ==
  lastOp.name \in {"addNode", "onConnect"}
    => pre.st.idCounter \notin NodeIds(pre.st) \cup EdgeIds(pre.st)

(***************************************************************************)
(* Sessions that toggle the unit system over a loaded network (SpecUnits)   *)
(***************************************************************************)
\* the stored quantities of the loaded network, in units of 1/Scale
UnitValues == 0..MaxUnitValue \cup {100 * Scale, 1234 * Scale + 5678}

\* a saved network every dimensional field of which holds v: a reservoir, a
\* flow boundary with a schedule and a variable conduit follow the global
\* unit; a surge tank and a conduit carry a unit override
UnitNetwork(v) ==
  [nodes |-> <<[id |-> 1, type |-> "reservoir", position |-> 0,
                data |-> [label |-> <<"HW">>, type |-> "reservoir",
                          nodeNumber |-> 1, elevation |-> v,
                          reservoirElevation |-> v]],
               [id |-> 2, type |-> "flowBoundary", position |-> 0,
                data |-> [label |-> <<"FB", 2>>, type |-> "flowBoundary",
                          nodeNumber |-> 2, scheduleNumber |-> 1,
                          schedulePoints |-> <<[time |-> 0, flow |-> v],
                                               [time |-> 20, flow |-> 0]>>]],
               [id |-> 3, type |-> "surgeTank", position |-> 0,
                data |-> [label |-> <<"ST">>, type |-> "surgeTank",
                          nodeNumber |-> 3, unit |-> "SI", elevation |-> v,
                          tankTop |-> v, tankBottom |-> v, diameter |-> v,
                          celerity |-> v, friction |-> 100,
                          schedulePoints |-> <<[time |-> 0, flow |-> v]>>]]>>,
   edges |-> <<[id |-> 4, source |-> 1, target |-> 2,
                data |-> [label |-> <<"C", 1>>, type |-> "conduit",
                          variable |-> TRUE, length |-> v, diameter |-> v,
                          celerity |-> v, friction |-> 200, numSegments |-> 1,
                          distance |-> v, area |-> v, d |-> v, a |-> v]],
               [id |-> 5, source |-> 2, target |-> 3,
                data |-> [label |-> <<"C", 2>>, type |-> "conduit",
                          unit |-> "FPS", length |-> v, diameter |-> v,
                          celerity |-> v, area |-> v, friction |-> 200,
                          numSegments |-> 1]]>>]

LoadUnitNetwork ==
  /\ nodes = <<>>
  /\ \E v \in UnitValues :
       Do("loadNetwork", <<UnitNetwork(v)>>, loadNetwork(State, UnitNetwork(v)))

UnitsNext ==
  /\ opCount < MaxUnitOps
  /\ opCount' = opCount + 1
  /\ \/ LoadUnitNetwork
     \/ SetGlobalUnit

SpecUnits == Init /\ [][UnitsNext]_vars

\* the element carries its own unit system (data.unit)
Pinned(el) == "unit" \in DOMAIN el.data

OtherUnit(unit) == IF unit = "SI" THEN "FPS" ELSE "SI"

\* C11: setGlobalUnit leaves every node and every edge that carries a unit
\* override exactly as it was, numeric fields and schedule points included.
PinnedElementsUntouched ==
  lastOp.name = "setGlobalUnit" =>
    /\ Len(nodes) = Len(pre.st.nodes)
    /\ Len(edges) = Len(pre.st.edges)
    /\ \A i \in 1..Len(nodes) : Pinned(pre.st.nodes[i]) => nodes[i] = pre.st.nodes[i]
    /\ \A i \in 1..Len(edges) : Pinned(pre.st.edges[i]) => edges[i] = pre.st.edges[i]

\* a change of unit system went over a network that holds a pinned node and
\* a pinned edge with non-zero quantities, and changed an unpinned element
PinnedElementsWitness ==
  /\ lastOp.name = "setGlobalUnit"
  /\ lastOp.args[1] # pre.st.globalUnit
  /\ \E i \in 1..Len(pre.st.nodes) :
       /\ Pinned(pre.st.nodes[i])
       /\ pre.st.nodes[i].data.tankTop > 0
       /\ pre.st.nodes[i].data.schedulePoints[1].flow > 0
  /\ \E i \in 1..Len(pre.st.edges) :
       Pinned(pre.st.edges[i]) /\ pre.st.edges[i].data.length > 0
  /\ \E i \in 1..Len(pre.st.nodes) :
       ~Pinned(pre.st.nodes[i]) /\ nodes[i] # pre.st.nodes[i]

\* the data of an unpinned element after a change of unit system, stated
\* field by field: every mapped field and every schedule flow is the
\* conversion of the old value, every other field and the times are kept
FieldsConverted(old, new, from, to) ==
  /\ DOMAIN new = DOMAIN old
  /\ \A k \in DOMAIN old :
       IF k \in DOMAIN fieldMapping
         THEN new[k] = convertValue(old[k], from, to, fieldMapping[k])
       ELSE IF k = "schedulePoints"
         THEN /\ Len(new[k]) = Len(old[k])
              /\ \A i \in 1..Len(old[k]) :
                   /\ new[k][i].time = old[k][i].time
                   /\ new[k][i].flow = convertValue(old[k][i].flow, from, to, "flow")
       ELSE new[k] = old[k]

ElementsConverted(olds, news, from, to) ==
  /\ Len(news) = Len(olds)
  /\ \A i \in 1..Len(olds) :
       ~Pinned(olds[i]) =>
         /\ [news[i] EXCEPT !.data = olds[i].data] = olds[i]
         /\ FieldsConverted(olds[i].data, news[i].data, from, to)

\* C12: setGlobalUnit(u) with u different from the current unit system is one
\* atomic step after which globalUnit is u and every mapped numeric field and
\* every schedule-point flow of every unpinned node and edge is converted.
UnitToggleConvertsAll ==
  (lastOp.name = "setGlobalUnit" /\ lastOp.args[1] # pre.st.globalUnit) =>
    /\ globalUnit = lastOp.args[1]
    /\ ElementsConverted(pre.st.nodes, nodes, pre.st.globalUnit, globalUnit)
    /\ ElementsConverted(pre.st.edges, edges, pre.st.globalUnit, globalUnit)

\* a change of unit system converted a schedule flow of an unpinned node and
\* a length and an area of an unpinned edge
UnitToggleWitness ==
  /\ lastOp.name = "setGlobalUnit"
  /\ lastOp.args[1] # pre.st.globalUnit
  /\ \E i \in 1..Len(pre.st.nodes) :
       /\ ~Pinned(pre.st.nodes[i])
       /\ "schedulePoints" \in DOMAIN pre.st.nodes[i].data
       /\ nodes[i].data.schedulePoints[1].flow
            # pre.st.nodes[i].data.schedulePoints[1].flow
  /\ \E i \in 1..Len(pre.st.edges) :
       /\ ~Pinned(pre.st.edges[i])
       /\ edges[i].data.length # pre.st.edges[i].data.length
       /\ edges[i].data.area # pre.st.edges[i].data.area
       /\ edges[i].data.d = pre.st.edges[i].data.d

\* the largest distance, over the mapped fields and the schedule flows of the
\* unpinned elements of two lists, allowed by the tolerance Tol(kind)
Abs(x) == IF x < 0 THEN 0 - x ELSE x

WithinTolerance(olds, news, Tol(_)) ==
  /\ Len(news) = Len(olds)
  /\ \A i \in 1..Len(olds) :
       ~Pinned(olds[i]) =>
         \A k \in DOMAIN olds[i].data :
           IF k \in DOMAIN fieldMapping
             THEN Abs(news[i].data[k] - olds[i].data[k]) <= Tol(fieldMapping[k])
           ELSE IF k = "schedulePoints"
             THEN \A j \in 1..Len(olds[i].data[k]) :
                    Abs(news[i].data[k][j].flow - olds[i].data[k][j].flow)
                      <= Tol("flow")
           ELSE TRUE

\* the store after a toggle to the other unit system and back
RoundTrip == setGlobalUnit(setGlobalUnit(State, OtherUnit(globalUnit)), globalUnit)

\* C13 as stated: converting every stored quantity to the other unit system
\* and back yields the original value within 0.0001, for every kind and in
\* both directions.
RoundTripWithinOneTenThousandth ==
  LET Tol(kind) == 1
  IN /\ WithinTolerance(nodes, RoundTrip.nodes, Tol)
     /\ WithinTolerance(edges, RoundTrip.edges, Tol)

\* half a conversion factor, in units of 1/Scale: the distance a value of the
\* FPS system can move when it is rounded to four decimals in the SI system
FpsRoundTripTolerance(kind) ==
  (SI_TO_FPS[kind][1] + SI_TO_FPS[kind][2]) \div (2 * SI_TO_FPS[kind][2])

\* C13, amended: from SI to FPS and back the value is the original one; from
\* FPS to SI and back it is within half the conversion factor times 0.0001
\* (0.0002 for lengths, 0.0005 for areas, 0.0018 for flows).
RoundTripWithinFactor ==
  LET Tol(kind) == IF globalUnit = "SI" THEN 0 ELSE FpsRoundTripTolerance(kind)
  IN /\ WithinTolerance(nodes, RoundTrip.nodes, Tol)
     /\ WithinTolerance(edges, RoundTrip.edges, Tol)

\* two changes of unit system in a row brought a loaded network back to its
\* first unit system with a quantity that is not the one it started from
RoundTripWitness ==
  /\ lastOp.name = "setGlobalUnit"
  /\ pre.op = "setGlobalUnit"
  /\ Len(past) >= 2
  /\ past[2].nodes # <<>>
  /\ past[2].nodes # past[1].nodes
  /\ past[1].nodes # nodes
  /\ past[2].nodes # nodes

\* C14: after addNode or onConnect the request list is the previous list,
\* unchanged and in the same order, followed by exactly three requests for
\* the new element: HISTORY, PLOT and SPREADSHEET, each with the variables
\* Q, HEAD, ELEV, VEL, PRESS, PIEZHEAD and the element type of the element.
CreationAppendsThreeRequests ==
  lastOp.name \in {"addNode", "onConnect"} =>
    LET before == pre.st.outputRequests
        n == Len(before)
        created == pre.st.idCounter
    IN /\ Len(outputRequests) = n + 3
       /\ SubSeq(outputRequests, 1, n) = before
       /\ \A j \in 1..3 :
            LET r == outputRequests[n + j]
            IN /\ r.elementId = created
               /\ r.elementType = (IF lastOp.name = "addNode" THEN "node" ELSE "edge")
               /\ r.requestType = <<"HISTORY", "PLOT", "SPREADSHEET">>[j]
               /\ r.variables = <<"Q", "HEAD", "ELEV", "VEL", "PRESS", "PIEZHEAD">>
               /\ \A i \in 1..n : before[i].id # r.id

\* an edge was connected in a store whose request list already held the
\* requests of its two end nodes
CreationRequestsWitness ==
  /\ lastOp.name = "onConnect"
  /\ Len(pre.st.outputRequests) >= 6
  /\ Len(edges) = Len(pre.st.edges) + 1
  /\ Len(outputRequests) = Len(pre.st.outputRequests) + 3

\* C15: deleteElement(id, kind) clears selectedElementId and
\* selectedElementType if the deleted element was the selected one and
\* leaves the selection as it was otherwise.
DeleteClearsOwnSelection ==
  lastOp.name = "deleteElement" =>
    IF /\ pre.st.selectedElementId = lastOp.args[1]
       /\ pre.st.selectedElementType = lastOp.args[2]
      THEN selectedElementId = Null /\ selectedElementType = "null"
      ELSE /\ selectedElementId = pre.st.selectedElementId
           /\ selectedElementType = pre.st.selectedElementType

\* the selected node was deleted and the selection is cleared
DeleteSelectedWitness ==
  /\ lastOp.name = "deleteElement"
  /\ pre.st.selectedElementId = lastOp.args[1]
  /\ pre.st.selectedElementType = lastOp.args[2]
  /\ lastOp.args[1] \in NodeIds(pre.st)
  /\ lastOp.args[1] \notin NodeIds(State)
  /\ selectedElementId = Null

(***************************************************************************)
(* Exports of loaded networks (SpecExport) and of built ones (SpecBuild)    *)
(***************************************************************************)
\* the ends and the label of an edge between the nodes 1..n
EdgeEnds(n) == [source : 1..n, target : 1..n, label : {<<"C", 1>>, <<"C", 2>>}]

\* a saved network: nodes of any kinds with the data addNode gives them and
\* node numbers that differ from the ids, edges with the data onConnect
\* gives them
ExportGraph(kinds, ends) ==
  LET n == Len(kinds)
  IN [nodes |-> [i \in 1..n |->
                   [id |-> i, type |-> kinds[i], position |-> 0,
                    data |-> Merge(initialData(kinds[i], i),
                                   [nodeNumber |-> i + NumberOffset])]],
      edges |-> [j \in 1..Len(ends) |->
                   NewEdge(n + j, ends[j], ends[j].label)]]

\* the store variables hold the store s
StoreIs(s) ==
  /\ nodes = s.nodes
  /\ edges = s.edges
  /\ selectedElementId = s.selectedElementId
  /\ selectedElementType = s.selectedElementType
  /\ computationalParams = s.computationalParams
  /\ outputRequests = s.outputRequests
  /\ projectName = s.projectName
  /\ loadedFileHandle = s.loadedFileHandle
  /\ globalUnit = s.globalUnit
  /\ past = s.past
  /\ future = s.future
  /\ idCounter = s.idCounter

\* the editor right after it has loaded a saved network
ExportInit ==
  /\ \E n \in 1..MaxSize :
       \E m \in 0..(MaxSize - n) :
         \E kinds \in [1..n -> NodeTypes], ends \in [1..m -> EdgeEnds(n)] :
           StoreIs(loadNetwork(InitState, ExportGraph(kinds, ends)))
  /\ inpText = <<>>
  /\ lastOp = [name |-> "loadNetwork", args |-> <<>>]
  /\ pre = [st |-> InitState, op |-> "init"]
  /\ opCount = 0

\* the loaded network is exported once
ExportNext ==
  /\ lastOp.name # "generateInpFile"
  /\ GenerateInpFile
  /\ UNCHANGED opCount

SpecExport == ExportInit /\ [][ExportNext]_vars

\* a session that sets the unit system, adds nodes and connects them, and
\* ends with the export of what it has built
BuildNext ==
  /\ lastOp.name # "generateInpFile"
  /\ \/ /\ opCount < MaxBuildOps
        /\ opCount' = opCount + 1
        /\ \/ SetGlobalUnit
           \/ AddNode
           \/ OnConnect
     \/ GenerateInpFile /\ UNCHANGED opCount

SpecBuild == Init /\ [][BuildNext]_vars

(***************************************************************************)
(* Reading the exported text                                               *)
(***************************************************************************)
\* the index of the first line of the text at or after i that is the
\* one-keyword line kw, Len(text) + 1 if there is none
RECURSIVE IndexOfKeyword(_, _, _)
IndexOfKeyword(text, kw, i) ==
  IF i > Len(text) THEN i
  ELSE IF Len(text[i]) = 1 /\ text[i][1] = kw THEN i
  ELSE IndexOfKeyword(text, kw, i + 1)

\* the lines between the SYSTEM header and the FINISH that closes the section
SystemSection(text) ==
  SubSeq(text, Len(headerLines) + 1, IndexOfKeyword(text, "FINISH", 1) - 1)

IsElemAt(line) == Len(line) = 4 /\ line[1] = "ELEM" /\ line[3] = "AT"
IsLink(line) == Len(line) = 5 /\ line[1] = "ELEM" /\ line[3] = "LINK"
IsJunctionAt(line) == Len(line) = 3 /\ line[1] = "JUNCTION" /\ line[2] = "AT"
IsNodeElev(line) == Len(line) = 4 /\ line[1] = "NODE" /\ line[3] = "ELEV"

\* the connectivity block: the ELEM and JUNCTION lines of the SYSTEM section
ConnectivityBlock(text) ==
  SelectSeq(SystemSection(text),
            LAMBDA l : IsElemAt(l) \/ IsLink(l) \/ IsJunctionAt(l))

\* the node numbers of the elevation listing, in the order of their lines
ListedNodeNumbers(text) ==
  MapSeq(SelectSeq(SystemSection(text), IsNodeElev), LAMBDA l : l[2])

\* the lines of the property blocks that open with the one-keyword line kw:
\* from each such line to the FINISH that closes its block
RECURSIVE BlockLines(_, _, _)
BlockLines(text, kw, i) ==
  LET from == IndexOfKeyword(text, kw, i)
      to == IndexOfKeyword(text, "FINISH", from)
  IN IF from > Len(text) THEN <<>>
     ELSE SubSeq(text, from, Min(to, Len(text))) \o BlockLines(text, kw, to + 1)

HasField(lines, kw, value) ==
  \E i \in 1..Len(lines) :
    Len(lines[i]) = 2 /\ lines[i][1] = kw /\ lines[i][2] = value

\* the store the scenario builds: global unit SI, a reservoir and a surge
\* tank added with their default data, one conduit from the first to the
\* second with its default data
ScenarioStore ==
  /\ globalUnit = "SI"
  /\ nodes = <<[id |-> 1, type |-> "reservoir", position |-> 0,
                data |-> initialData("reservoir", 1)],
               [id |-> 2, type |-> "surgeTank", position |-> 0,
                data |-> initialData("surgeTank", 2)]>>
  /\ edges = <<NewEdge(3, [source |-> 1, target |-> 2], <<"C", 1>>)>>

\* C16: with global unit SI, the network built by addNode(reservoir),
\* addNode(surgeTank), onConnect(reservoir -> surgeTank) exports a text whose
\* connectivity block is ELEM HW AT 1, ELEM C1 LINK 1 2, ELEM ST AT 2, that
\* has a NODE elevation line for node 1 and for node 2, and whose property
\* blocks hold RESERVOIR ELEV 328.08, CONDUIT LENGTH 3280.84, SURGETANK
\* ELTOP 393.70 and ELBOTTOM 262.47.
ScenarioExport ==
  (lastOp.name = "generateInpFile" /\ ScenarioStore) =>
    /\ ConnectivityBlock(inpText) =
         << <<"ELEM", <<"HW">>, "AT", 1>>,
            <<"ELEM", <<"C", 1>>, "LINK", 1, 2>>,
            <<"ELEM", <<"ST">>, "AT", 2>> >>
    /\ \A n \in {1, 2} : n \in Range(ListedNodeNumbers(inpText))
    /\ HasField(BlockLines(inpText, "RESERVOIR", 1), "ELEV", Fixed2(32808))
    /\ HasField(BlockLines(inpText, "CONDUIT", 1), "LENGTH", Fixed2(328084))
    /\ HasField(BlockLines(inpText, "SURGETANK", 1), "ELTOP", Fixed2(39370))
    /\ HasField(BlockLines(inpText, "SURGETANK", 1), "ELBOTTOM", Fixed2(26247))

\* the walk of the exporter over the network that was exported
ExportedWalk == connectivity(pre.st.nodes, pre.st.edges)

NoDuplicates(seq) == \A i, j \in 1..Len(seq) : seq[i] = seq[j] => i = j

\* every edge of the network ends at nodes of the network
StructurallyValid(s) ==
  \A e \in Range(s.edges) : e.source \in NodeIds(s) /\ e.target \in NodeIds(s)

\* C17: generateInpFile terminates and returns the text for every finite
\* structurally valid graph, with cycles, self-loops, parallel edges, several
\* or no reservoirs and missing optional fields: the walk enters every node
\* at most once and writes at most one LINK line per edge, and the text is
\* complete down to its last line.
ExportTerminates ==
  (lastOp.name = "generateInpFile" /\ StructurallyValid(pre.st)) =>
    /\ NoDuplicates(ExportedWalk.visitedNodes)
    /\ Range(ExportedWalk.visitedNodes) \subseteq NodeIds(pre.st)
    /\ Len(SelectSeq(ConnectivityBlock(inpText), IsLink)) <= Len(pre.st.edges)
    /\ Len(inpText) > 0
    /\ inpText[Len(inpText)] = <<"GOODBYE">>

\* a network with a directed cycle through a reservoir, walked once around,
\* and with a surge tank whose optional fields are missing was exported
ExportCycleWitness ==
  /\ lastOp.name = "generateInpFile"
  /\ \E a, b \in NodeIds(State) :
       /\ a # b
       /\ \E n \in Range(nodes) : n.id = a /\ n.type = "reservoir"
       /\ \E n \in Range(nodes) :
            n.id = b /\ n.type = "surgeTank" /\ "tankTop" \notin DOMAIN n.data
       /\ \E e1, e2 \in Range(edges) :
            /\ e1.source = a /\ e1.target = b
            /\ e2.source = b /\ e2.target = a
  /\ Len(SelectSeq(ConnectivityBlock(inpText), IsLink)) = 2
  /\ inpText[Len(inpText)] = <<"GOODBYE">>

IsSpecialKind(n) == n.type \in {"reservoir", "surgeTank", "flowBoundary"}

\* the ELEM ... AT lines of the text that name the label and the number of n
ElemAtLinesOf(text, n) ==
  SelectSeq(ConnectivityBlock(text),
            LAMBDA l : IsElemAt(l) /\ l[2] = n.data.label /\ l[4] = n.data.nodeNumber)

\* C18: every node of kind reservoir, surgeTank or flowBoundary contributes
\* exactly one ELEM <label> AT <nodeNumber> line to the connectivity block,
\* reached by the walk or not, and the nodes of kind node or junction
\* contribute none.
SpecialElementsOnce ==
  lastOp.name = "generateInpFile" =>
    /\ \A n \in Range(nodes) :
         Len(ElemAtLinesOf(inpText, n)) = (IF IsSpecialKind(n) THEN 1 ELSE 0)
    /\ Len(SelectSeq(ConnectivityBlock(inpText), IsElemAt))
         = Cardinality({n \in Range(nodes) : IsSpecialKind(n)})

\* a network with a reservoir and a flow boundary that no edge reaches was
\* exported, and both have their line
SpecialUnreachedWitness ==
  /\ lastOp.name = "generateInpFile"
  /\ \E n, f \in Range(nodes) :
       /\ n.type = "reservoir"
       /\ f.type = "flowBoundary"
       /\ f.id \notin Range(ExportedWalk.visitedNodes)
       /\ Len(ElemAtLinesOf(inpText, n)) = 1
       /\ Len(ElemAtLinesOf(inpText, f)) = 1

OutDegree(s, id) == Len(SelectSeq(s.edges, LAMBDA e : e.source = id))

\* the positions of the JUNCTION AT marker of node number num in the block
JunctionPositions(block, num) ==
  {i \in 1..Len(block) : IsJunctionAt(block[i]) /\ block[i][3] = num}

\* where the markers of the visited nodes stand: Marked(n) says which
\* nodes have one
JunctionMarkers(Marked(_)) ==
  LET block == ConnectivityBlock(inpText)
  IN \A n \in Range(nodes) :
       n.id \in Range(ExportedWalk.visitedNodes) =>
         LET num == n.data.nodeNumber
             at == JunctionPositions(block, num)
         IN IF Marked(n)
              THEN /\ Cardinality(at) = 1
                   /\ \A j \in at, k \in 1..Len(block) :
                        /\ (IsElemAt(block[k]) /\ block[k][4] = num) => k < j
                        /\ (IsLink(block[k]) /\ block[k][4] = num) => j < k
                   /\ num \in ExportedWalk.nodeIdsWithSpecialElements
                   /\ "elevation" \in DOMAIN n.data
                        => num \in Range(ListedNodeNumbers(inpText))
              ELSE at = {}

\* C19 as stated: a visited node has exactly one JUNCTION AT marker if and
\* only if it is of junction kind or has more than one outgoing edge; the
\* marker stands after the node's ELEM AT line and before the LINK lines of
\* its outgoing edges, and the node counts as carrying a special element.
JunctionMarkerByKindOrFanOut ==
  lastOp.name = "generateInpFile" =>
    JunctionMarkers(LAMBDA n : n.type = "junction" \/ OutDegree(State, n.id) > 1)

\* C19, amended: a visited node has exactly one JUNCTION AT marker if and
\* only if it has an outgoing edge and is of junction kind or has more than
\* one outgoing edge; a junction without outgoing edge has none.
JunctionMarkerNeedsOutgoing ==
  lastOp.name = "generateInpFile" =>
    JunctionMarkers(LAMBDA n : /\ OutDegree(State, n.id) > 0
                               /\ (n.type = "junction" \/ OutDegree(State, n.id) > 1))

\* a reservoir with two outgoing edges to a junction without outgoing edge
\* was exported: the reservoir has its marker, the junction has none
JunctionMarkerWitness ==
  /\ lastOp.name = "generateInpFile"
  /\ \E r, j \in Range(nodes) :
       /\ r.type = "reservoir" /\ OutDegree(State, r.id) = 2
       /\ j.type = "junction" /\ OutDegree(State, j.id) = 0
       /\ j.id \in Range(ExportedWalk.visitedNodes)
       /\ JunctionPositions(ConnectivityBlock(inpText), r.data.nodeNumber) # {}
       /\ JunctionPositions(ConnectivityBlock(inpText), j.data.nodeNumber) = {}

\* the node numbers that carry a special element according to the block:
\* those of an ELEM AT line or of a JUNCTION AT marker
SpecialNumbers(block) ==
  {block[i][4] : i \in {k \in 1..Len(block) : IsElemAt(block[k])}} \cup
  {block[i][3] : i \in {k \in 1..Len(block) : IsJunctionAt(block[k])}}

\* the node numbers that an ELEM LINK line names
LinkedNumbers(block) ==
  UNION {{block[i][4], block[i][5]} : i \in {k \in 1..Len(block) : IsLink(block[k])}}

\* exactly one incoming and one outgoing LINK reference, of the same label,
\* and no special element
ElidedByRule(block, num) ==
  LET incoming == SelectSeq(block, LAMBDA l : IsLink(l) /\ l[5] = num)
      outgoing == SelectSeq(block, LAMBDA l : IsLink(l) /\ l[4] = num)
  IN /\ Len(incoming) = 1
     /\ Len(outgoing) = 1
     /\ incoming[1][2] = outgoing[1][2]
     /\ num \notin SpecialNumbers(block)

\* C20: over the node numbers that appear in the connectivity lines or carry
\* a special element, a node number is left out of the elevation listing if
\* and only if it has exactly one incoming and one outgoing LINK reference
\* of the same label and no special element; a node number that is in no
\* connectivity line and carries no special element is not in the listing.
\* (A node without elevation has no line to list and is not judged.)
ElisionRule ==
  lastOp.name = "generateInpFile" =>
    LET block == ConnectivityBlock(inpText)
        candidates == LinkedNumbers(block) \cup SpecialNumbers(block)
        listed == Range(ListedNodeNumbers(inpText))
    IN /\ \A n \in Range(nodes) :
            "elevation" \in DOMAIN n.data =>
              IF n.data.nodeNumber \in candidates
                THEN n.data.nodeNumber \notin listed
                       <=> ElidedByRule(block, n.data.nodeNumber)
                ELSE n.data.nodeNumber \notin listed
       /\ listed \subseteq candidates

\* C21: every node that carries a reservoir, a surge tank or a flow boundary
\* has its NODE <number> ELEV <value> line in the exported text, whatever its
\* incoming and outgoing references, the surge tanks and flow boundaries that
\* addNode creates with their default data included.
SpecialNodesListed ==
  lastOp.name = "generateInpFile" =>
    \A n \in Range(nodes) :
      IsSpecialKind(n) => actualNodeId(n) \in Range(ListedNodeNumbers(inpText))

(***************************************************************************)
(* Exports of networks whose edges share labels (SpecBlocks)                *)
(***************************************************************************)
\* what distinguishes an edge of such a network: its kind, its label and
\* whether it has a loss coefficient
BlockEdgeOptions ==
  [type : {"conduit", "dummy"}, label : {<<"X", 1>>, <<"X", 2>>},
   cplus : BOOLEAN]

\* a saved network of a reservoir, a node and edges from the first to the
\* second; the diameter of the j-th edge is j * 0.5
BlockNetwork(opts) ==
  [nodes |-> <<[id |-> 1, type |-> "reservoir", position |-> 0,
                data |-> initialData("reservoir", 1)],
               [id |-> 2, type |-> "node", position |-> 0,
                data |-> initialData("node", 2)]>>,
   edges |-> [j \in 1..Len(opts) |->
                LET e == NewEdge(2 + j, [source |-> 1, target |-> 2], opts[j].label)
                IN [e EXCEPT !.data =
                      Merge(@, IF opts[j].cplus
                                 THEN [type |-> opts[j].type, diameter |-> j * 5000,
                                       cplus |-> 1000]
                                 ELSE [type |-> opts[j].type, diameter |-> j * 5000])]]]

BlocksInit ==
  /\ \E m \in 0..MaxBlockEdges :
       \E opts \in [1..m -> BlockEdgeOptions] :
         StoreIs(loadNetwork(InitState, BlockNetwork(opts)))
  /\ inpText = <<>>
  /\ lastOp = [name |-> "loadNetwork", args |-> <<>>]
  /\ pre = [st |-> InitState, op |-> "init"]
  /\ opCount = 0

SpecBlocks == BlocksInit /\ [][ExportNext]_vars

\* the indexes of the lines that open a property block of an edge with the
\* ID label: the ID line of a CONDUIT block, the CONDUIT ID line of a dummy
EdgeBlockStarts(text, label) ==
  {i \in 1..Len(text) :
     \/ /\ Len(text[i]) = 3
        /\ text[i][1] = "CONDUIT" /\ text[i][2] = "ID" /\ text[i][3] = label
     \/ /\ i > 1
        /\ Len(text[i - 1]) = 1 /\ text[i - 1][1] = "CONDUIT"
        /\ Len(text[i]) = 2 /\ text[i][1] = "ID" /\ text[i][2] = label}

\* the lines of the block that opens at line i, down to its FINISH
BlockAt(text, i) == SubSeq(text, i, IndexOfKeyword(text, "FINISH", i))

\* the diameter line of the property block of edge e
DiameterLine(e, unit) ==
  <<IF e.data.type = "dummy" THEN "DIAMETER" ELSE "DIAM",
    toFPS(e.data.diameter, unit, "diameter")>>

\* C22: for every edge label the exported text has at most one property
\* block with that ID, the block of the first edge in edge order that
\* carries the label, for conduit and for dummy edges alike.
BlocksUniquePerLabel ==
  lastOp.name = "generateInpFile" =>
    \A j \in 1..Len(edges) :
      LET label == labelOrId(edges[j])
          first == CHOOSE k \in 1..Len(edges) :
                     /\ labelOrId(edges[k]) = label
                     /\ \A h \in 1..(k - 1) : labelOrId(edges[h]) # label
          starts == EdgeBlockStarts(inpText, label)
      IN /\ Cardinality(starts) <= 1
         /\ \A i \in starts :
              \E l \in Range(BlockAt(inpText, i)) :
                l = DiameterLine(edges[first], globalUnit)

(***************************************************************************)
(* Sessions that edit the output requests and export (SpecSession)          *)
(***************************************************************************)
\* a session of at most MaxSessionOps steps: elements are created, a saved
\* network is loaded, requests are added and removed by hand, the canvas is
\* cleared, and the text is exported, any number of times in a row
SessionNext ==
  /\ opCount < MaxSessionOps
  /\ opCount' = opCount + 1
  /\ \/ AddNode
     \/ LoadNetwork
     \/ AddOutputRequest
     \/ RemoveOutputRequest
     \/ ClearNetwork
     \/ GenerateInpFile

SpecSession == Init /\ [][SessionNext]_vars

IsSectionComment(line, a, b) ==
  Len(line) = 3 /\ line[1] = "C" /\ line[2] = a /\ line[3] = b

\* the index of the first section comment C a b of the text
SectionStart(text, a, b) ==
  CHOOSE i \in 1..Len(text) :
    /\ IsSectionComment(text[i], a, b)
    /\ \A j \in 1..(i - 1) : ~IsSectionComment(text[j], a, b)

\* the lines between C OUTPUT REQUEST and C COMPUTATIONAL PARAMETERS that
\* are not blank
RequestSection(text) ==
  SelectSeq(SubSeq(text, SectionStart(text, "OUTPUT", "REQUEST") + 1,
                   SectionStart(text, "COMPUTATIONAL", "PARAMETERS") - 1),
            LAMBDA l : l # <<>>)

\* the lines of the group the one-keyword line kw opens, down to the line
\* before its FINISH; <<>> if there is no such group
GroupOf(section, kw) ==
  LET from == IndexOfKeyword(section, kw, 1)
  IN SubSeq(section, from + 1, IndexOfKeyword(section, "FINISH", from) - 1)

KeywordCount(section, kw) ==
  Cardinality({i \in 1..Len(section) : Len(section[i]) = 1 /\ section[i][1] = kw})

RequestTypesOf(requests) == {requests[i].requestType : i \in 1..Len(requests)}

RequestsOfType(requests, type) ==
  SelectSeq(requests, LAMBDA r : r.requestType = type)

IsRequestLine(line) == Len(line) >= 2 /\ line[1] \in {"NODE", "ELEM"}

DefaultRequestBlock ==
  << <<"HISTORY">>, <<"NODE", NumberLabel(2), "Q", "HEAD">>,
     <<"ELEM", <<"ST">>, "Q", "ELEV">>, <<"FINISH">> >>

\* C23: the output request block of the exported text has one group per
\* distinct request type, every request is written as exactly one line, in
\* the group of its own type, the DISPLAY ALL block follows exactly when the
\* requests are of two or more types, and the fixed default HISTORY block
\* stands alone exactly when there are no requests.
RequestBlockGrouped ==
  lastOp.name = "generateInpFile" =>
    LET section == RequestSection(inpText)
        types == RequestTypesOf(outputRequests)
    IN IF outputRequests = <<>>
         THEN section = DefaultRequestBlock
         ELSE /\ \A type \in Range(requestTypes) :
                   /\ KeywordCount(section, type) = IF type \in types THEN 1 ELSE 0
                   /\ type \in types =>
                        GroupOf(section, type) =
                          MapSeq(RequestsOfType(outputRequests, type),
                                 LAMBDA r : requestLine(nodes, edges, r))
              /\ Len(SelectSeq(section, IsRequestLine)) = Len(outputRequests)
              /\ KeywordCount(section, "DISPLAY") =
                   IF Cardinality(types) >= 2 THEN 1 ELSE 0
              /\ GroupOf(section, "DISPLAY") =
                   IF Cardinality(types) >= 2 THEN << <<"ALL">> >> ELSE <<>>
              /\ KeywordCount(section, "FINISH") =
                   Cardinality(types) + IF Cardinality(types) >= 2 THEN 1 ELSE 0

\* requests of three types, two of them of one type and on different
\* elements, have been exported
RequestGroupsWitness ==
  /\ lastOp.name = "generateInpFile"
  /\ Cardinality(RequestTypesOf(outputRequests)) = 3
  /\ \E i, j \in 1..Len(outputRequests) :
       /\ i # j
       /\ outputRequests[i].requestType = outputRequests[j].requestType
       /\ outputRequests[i].elementId # outputRequests[j].elementId

EdgesNext ==
  /\ opCount < MaxEdgeOps
  /\ opCount' = opCount + 1
  /\ \/ LoadNetwork
     \/ OnConnect
     \/ UpdateEdgeData
     \/ UpdateEdgeLabel
     \/ DeleteElement

SpecEdges == Init /\ [][EdgesNext]_vars

\* the edge with the id among the edges es
EdgeOf(es, id) == CHOOSE e \in Range(es) : e.id = id

TypeChanges(edge, data) == "type" \in DOMAIN data /\ data.type # edge.data.type

LabelsNext ==
  /\ opCount < MaxLabelOps
  /\ opCount' = opCount + 1
  /\ \/ nodes = <<>> /\ AddNode
     \/ OnConnect
     \/ UpdateEdgeData
     \/ DeleteElement

SpecLabels == Init /\ [][LabelsNext]_vars

\* C26: the labels the store assigns are pairwise distinct: after any
\* sequence of onConnect, updateEdgeData with a type and deleteElement, no
\* two edges of the store carry the same label.
StoreLabelsDistinct ==
  \A i, j \in 1..Len(edges) :
    i # j => edges[i].data.label # edges[j].data.label

\* the ids of the nodes that can be reached from the nodes S along the
\* directed edges es, the nodes of S included
RECURSIVE ReachableFrom(_, _)
ReachableFrom(S, es) ==
  LET T == S \cup {e.target : e \in {x \in Range(es) : x.source \in S}}
  IN IF T = S THEN S ELSE ReachableFrom(T, es)

ReservoirIds(ns) == {n.id : n \in {x \in Range(ns) : x.type = "reservoir"}}

\* the node number of the node with the id
NumberOf(ns, id) == actualNodeId(CHOOSE n \in Range(ns) : n.id = id)

\* the LINK line of edge e: its label, the node numbers of its source and
\* of its target
LinkLineOf(ns, e) ==
  <<"ELEM", labelOrId(e), "LINK", NumberOf(ns, e.source), NumberOf(ns, e.target)>>

LinkLines(text) == SelectSeq(ConnectivityBlock(text), IsLink)

\* C27: an edge whose source can be reached from a reservoir along directed
\* edges is written as one ELEM <label> LINK <from> <to> line, from and to
\* being the node numbers of its source and target; an edge whose source
\* cannot be reached is not written; no edge is written twice.  (Edges that
\* agree in label, source and target have equal lines: there are as many of
\* such lines as there are such edges with a reachable source.)
LinksCoverReachableEdges ==
  lastOp.name = "generateInpFile" =>
    LET links == LinkLines(inpText)
        reached == ReachableFrom(ReservoirIds(nodes), edges)
        emitted == {j \in 1..Len(edges) : edges[j].source \in reached}
    IN /\ Len(links) = Cardinality(emitted)
       /\ \A k \in 1..Len(edges) :
            Cardinality({i \in 1..Len(links) : links[i] = LinkLineOf(nodes, edges[k])}) =
              Cardinality({j \in emitted :
                             LinkLineOf(nodes, edges[j]) = LinkLineOf(nodes, edges[k])})

\* the exported network has an edge whose source is reached from a
\* reservoir, which is written, and an edge whose source is not reached,
\* which is not
LinkCoverageWitness ==
  /\ lastOp.name = "generateInpFile"
  /\ LET reached == ReachableFrom(ReservoirIds(nodes), edges)
     IN /\ \E e \in Range(edges) :
             /\ e.source \in reached
             /\ LinkLineOf(nodes, e) \in Range(LinkLines(inpText))
        /\ \E e \in Range(edges) :
             /\ e.source \notin reached
             /\ LinkLineOf(nodes, e) \notin Range(LinkLines(inpText))

(***************************************************************************)
(* Unit toggles and the history (SpecUnitHistory)                           *)
(***************************************************************************)
\* a session of at most MaxUnitHistoryOps operations that loads the
\* network, toggles the unit system and travels through the history
UnitHistoryNext ==
  /\ opCount < MaxUnitHistoryOps
  /\ opCount' = opCount + 1
  /\ \/ LoadUnitNetwork
     \/ SetGlobalUnit
     \/ Undo
     \/ Redo

SpecUnitHistory == Init /\ [][UnitHistoryNext]_vars

\* two tokens at the same place of two texts show the same quantity: they
\* are equal, or they are toFixed(2) numbers at most tol hundredths apart
TokensAgree(x, y, tol) ==
  \/ x = y
  \/ /\ Len(x) = 2 /\ Len(y) = 2
     /\ x[1] = "toFixed(2)" /\ y[1] = "toFixed(2)"
     /\ Abs(x[2] - y[2]) <= tol

\* two exported texts describe the same network: the same lines with the
\* same tokens, the printed quantities agreeing up to tol hundredths
TextsAgree(a, b, tol) ==
  /\ Len(a) = Len(b)
  /\ \A i \in 1..Len(a) :
       /\ Len(a[i]) = Len(b[i])
       /\ \A k \in 1..Len(a[i]) : TokensAgree(a[i][k], b[i][k], tol)

\* C28: the stored values are expressed in the current global unit in every
\* state: setGlobalUnit(u) followed by undo() leaves values and a global
\* unit that agree, so the text exported after the undo shows the
\* quantities of the network the toggle converted, up to the one hundredth
\* that rounding to four decimals in the store and to two in the text can
\* move a printed quantity by.
UndoKeepsUnitsConsistent ==
  (lastOp.name = "undo" /\ pre.op = "setGlobalUnit") =>
    TextsAgree(generateInpFile(pre.st), generateInpFile(State), 1)

\* C29: every field the exporter converts with toFPS is converted by
\* setGlobalUnit too: the text exported after a toggle of the global unit
\* shows, for every field, the quantity the text exported before the toggle
\* showed, up to one hundredth of rounding.
ToggleKeepsExportedQuantities ==
  (lastOp.name = "setGlobalUnit" /\ pre.st.globalUnit # globalUnit) =>
    TextsAgree(generateInpFile(pre.st), generateInpFile(State), 1)

\* C30: the selection never dangles: in every state selectedElementId is
\* null or the id of a node or of an edge of the store, of the kind
\* selectedElementType names.
SelectionResolves ==
  \/ selectedElementId = Null
  \/ selectedElementType = "node" /\ selectedElementId \in NodeIds(State)
  \/ selectedElementType = "edge" /\ selectedElementId \in EdgeIds(State)

\* C31: setGlobalUnit(u) with u the current global unit changes nothing:
\* nodes, edges, globalUnit, the past and the future of the history are as
\* they were (no snapshot is pushed, no redo entry is dropped).
SameUnitIsNoOp ==
  (lastOp.name = "setGlobalUnit" /\ lastOp.args[1] = pre.st.globalUnit) =>
    /\ nodes = pre.st.nodes
    /\ edges = pre.st.edges
    /\ globalUnit = pre.st.globalUnit
    /\ past = pre.st.past
    /\ future = pre.st.future

(***************************************************************************)
(* Exports of a network with unit overrides (SpecUnitExport)                *)
(***************************************************************************)
\* the network of the unit sessions with a flow boundary and a dummy edge
\* that carry a unit override of their own
UnitExportNetwork(v) ==
  [nodes |-> Append(UnitNetwork(v).nodes,
                    [id |-> 6, type |-> "flowBoundary", position |-> 0,
                     data |-> [label |-> <<"FB", 6>>, type |-> "flowBoundary",
                               nodeNumber |-> 6, unit |-> "SI", elevation |-> v,
                               scheduleNumber |-> 2,
                               schedulePoints |-> <<[time |-> 0, flow |-> v]>>]]),
   edges |-> Append(UnitNetwork(v).edges,
                    [id |-> 7, source |-> 3, target |-> 6,
                     data |-> [label |-> <<"D", 1>>, type |-> "dummy",
                               unit |-> "SI", diameter |-> v]])]

LoadUnitExportNetwork ==
  /\ nodes = <<>>
  /\ \E v \in UnitValues :
       Do("loadNetwork", <<UnitExportNetwork(v)>>,
          loadNetwork(State, UnitExportNetwork(v)))

\* a session of at most MaxUnitExportOps steps that loads the network,
\* toggles the unit system and exports
UnitExportNext ==
  /\ opCount < MaxUnitExportOps
  /\ opCount' = opCount + 1
  /\ \/ LoadUnitExportNetwork
     \/ SetGlobalUnit
     \/ GenerateInpFile

SpecUnitExport == Init /\ [][UnitExportNext]_vars

\* the SI to FPS factor of a quantity kind as a fraction: the linear factor
\* 3.28084 of lengths, diameters, elevations and celerities, 10.7639 of
\* areas, 35.3147 of flows
FactorOfKind(kind) ==
  IF kind = "area" THEN <<107639, 10000>>
  ELSE IF kind = "flow" THEN <<353147, 10000>>
  ELSE <<328084, 100000>>

\* the number the text shows for the stored value of element el: unscaled
\* if the element's own unit, or without one the global unit, is FPS, and
\* multiplied by the factor of its kind otherwise; two decimals
EmittedValue(el, value, unit, kind) ==
  LET own == IF "unit" \in DOMAIN el.data THEN el.data.unit ELSE unit
  IN IF own = "FPS" THEN Fixed2(MulDivRound(value, 1, 100))
     ELSE Fixed2(MulDivRound(value, FactorOfKind(kind)[1],
                             FactorOfKind(kind)[2] * 100))

\* keyword, field and quantity kind of the dimensional lines of the property
\* block of an element
DimensionalLines(el) ==
  IF el.data.type = "reservoir"
    THEN {<<"ELEV", "reservoirElevation", "elevation">>}
  ELSE IF el.data.type = "surgeTank"
    THEN {<<"ELTOP", "tankTop", "elevation">>, <<"ELBOTTOM", "tankBottom", "elevation">>,
          <<"DIAM", "diameter", "diameter">>, <<"CELERITY", "celerity", "celerity">>}
  ELSE IF el.data.type = "dummy"
    THEN {<<"DIAMETER", "diameter", "diameter">>}
  ELSE IF el.data.type = "conduit" /\ isVariable(el.data)
    THEN {<<"LENGTH", "length", "length">>, <<"CELERITY", "celerity", "celerity">>,
          <<"DISTANCE", "distance", "length">>, <<"AREA", "area", "area">>,
          <<"D", "d", "diameter">>, <<"A", "a", "area">>}
  ELSE IF el.data.type = "conduit"
    THEN {<<"LENGTH", "length", "length">>, <<"CELERITY", "celerity", "celerity">>,
          <<"DIAM", "diameter", "diameter">>}
  ELSE {}

\* the lines of the property block whose ID is the label, <<>> if the text
\* has no such block
PropertyBlockOf(text, label) ==
  LET starts == {i \in 1..Len(text) :
                   /\ Len(text[i]) >= 2
                   /\ \/ text[i][1] = "ID" /\ text[i][2] = label
                      \/ /\ Len(text[i]) = 3 /\ text[i][1] = "CONDUIT"
                         /\ text[i][2] = "ID" /\ text[i][3] = label}
  IN IF starts = {} THEN <<>> ELSE BlockAt(text, CHOOSE i \in starts : TRUE)

\* the NODE lines of the node number
ElevationLinesOf(text, num) ==
  SelectSeq(SystemSection(text), LAMBDA l : IsNodeElev(l) /\ l[2] = num)

\* the QSCHEDULE lines of the schedule number
ScheduleLinesOf(text, d) ==
  SelectSeq(text, LAMBDA l : /\ Len(l) > 2 /\ l[1] = "QSCHEDULE"
                             /\ l[2] = Printed(d, "scheduleNumber"))

\* the text shows the dimensional fields of element el in the unit the
\* element is stored in
EmittedInOwnUnit(text, el, unit) ==
  /\ \A t \in DimensionalLines(el) :
       t[2] \in DOMAIN el.data =>
         HasField(PropertyBlockOf(text, el.data.label), t[1],
                  EmittedValue(el, el.data[t[2]], unit, t[3]))
  /\ ("type" \in DOMAIN el /\ "elevation" \in DOMAIN el.data) =>
       \A i \in 1..Len(ElevationLinesOf(text, actualNodeId(el))) :
         ElevationLinesOf(text, actualNodeId(el))[i][4] =
           EmittedValue(el, el.data.elevation, unit, "elevation")
  /\ ("type" \in DOMAIN el /\ el.data.type = "flowBoundary") =>
       /\ Len(ScheduleLinesOf(text, el.data)) = 1
       /\ \A i \in 1..Len(el.data.schedulePoints) :
            ScheduleLinesOf(text, el.data)[1][2 + 4 * i] =
              EmittedValue(el, el.data.schedulePoints[i].flow, unit, "flow")

\* the lines of the text that show values of element el
EmittedLinesOf(text, el) ==
  <<PropertyBlockOf(text, el.data.label),
    IF "type" \in DOMAIN el
      THEN ElevationLinesOf(text, actualNodeId(el)) \o ScheduleLinesOf(text, el.data)
      ELSE <<>> >>

\* C32: the exported text shows every dimensional value of a node or an
\* edge in the element's own unit override if it has one and in the global
\* unit otherwise: unscaled for FPS, multiplied by the SI to FPS factor of
\* its quantity kind for SI (the linear factor, the area factor, the flow
\* factor of schedule flows); and a toggle of the global unit leaves the
\* lines of an element with a unit override as they were.
ExportUnitSelection ==
  /\ lastOp.name = "generateInpFile" =>
       \A el \in Range(nodes) \cup Range(edges) :
         EmittedInOwnUnit(inpText, el, globalUnit)
  /\ (lastOp.name = "setGlobalUnit" /\ pre.st.nodes # <<>>) =>
       LET before == generateInpFile(pre.st)
           after == generateInpFile(State)
       IN \A i \in 1..Len(nodes) + Len(edges) :
            LET old == (pre.st.nodes \o pre.st.edges)[i]
                new == (nodes \o edges)[i]
            IN Pinned(old) =>
                 EmittedLinesOf(after, new) = EmittedLinesOf(before, old)

\* a network with elements pinned to SI and to FPS and elements that follow
\* the global unit, holding quantities of a hundred and more, has been
\* exported after a toggle of the global unit to SI
ExportUnitWitness ==
  /\ lastOp.name = "generateInpFile"
  /\ pre.op = "setGlobalUnit"
  /\ globalUnit = "SI"
  /\ \E e \in Range(edges) : Pinned(e) /\ e.data.unit = "FPS" /\ e.data.length >= 100 * Scale
  /\ \E n \in Range(nodes) : Pinned(n) /\ n.data.unit = "SI" /\ n.data.elevation >= 100 * Scale
  /\ \E e \in Range(edges) : ~Pinned(e) /\ e.data.area > 0

====
